---- MODULE Spec2Model ----
(***************************************************************************)
(* The authoritative world-state engine of InfiniteBomberman (the richest  *)
(* server variant, src/unnamed/part_000): the wrap-around grid, the        *)
(* command handlers, the explosion engine and the timers.                  *)
(*                                                                         *)
(* Time is kept relative: every pending setTimeout carries the number of   *)
(* ticks left until it is due and every timed effect the number of ticks   *)
(* left until Date.now() passes its expiresAt.  One tick is TICK_MS        *)
(* milliseconds, the greatest common divisor of all delays of the server.  *)
(* Date.now() stamps that are only written (createdAt) are kept as the     *)
(* identity of the writer (a bomb id, a trail number).                     *)
(***************************************************************************)
EXTENDS Integers, Sequences, FiniteSets, TLC

VARIABLES
    gameState,       \* the world: players, bombs, explosions, walls, powerups, fireTrails
    playerOrder,     \* insertion order of the keys of gameState.players
    socketToPlayer,  \* socket id -> persistent player id
    sockets,         \* the connected sockets
    timers,          \* the pending setTimeout callbacks, in creation order
    nextBombId,      \* stands for the unique `bomb_${Date.now()}_${Math.random()}`
    nextTrailId,     \* stands for the createdAt stamp of a fire trail
    snapshot,        \* the payload of the last io.emit('gameState', ...)
    last,            \* the handler or callback that ran last, its input and outcome
    inputs,          \* what the clients and Math.random() can supply in this run
    wrapCall         \* a call of wrapCoordinate on its own: arguments and result

vars == <<gameState, playerOrder, socketToPlayer, sockets, timers, nextBombId,
          nextTrailId, snapshot, last, inputs, wrapCall>>

-----------------------------------------------------------------------------
(* Game constants                                                          *)

CELL_SIZE == 32
CANVAS_WIDTH == 800
CANVAS_HEIGHT == 600
COLS == CANVAS_WIDTH \div CELL_SIZE
ROWS == (CANVAS_HEIGHT \div CELL_SIZE) + 1

FUSE_MS == 3000
DECAY_MS == 500
TRAIL_MS == 2000
MAX_LIVES == 8
START_LIVES == 5
DEFAULT_RANGE == 3
MEGA_RANGE == 6
MAGNET_RANGE == 3
WALL_BUILDER_USES == 3
WALL_CAP == 150
NUM_COLORS == 4

\* the unit of model time: the shortest delay the server schedules
TICK_MS == DECAY_MS

Ticks(ms) == ms \div TICK_MS

\* POWERUPS: the catalog, id -> duration in ms (0: instant or counted)
POWERUPS ==
    [mega_bomb |-> 0, tornado_bomb |-> 0, fire_trail |-> 10000, ghost_mode |-> 10000,
     teleport |-> 0, extra_life |-> 0, force_field |-> 8000, swap |-> 0,
     scramble |-> 0, magnet |-> 5000, wall_builder |-> 0]

Kinds == DOMAIN POWERUPS

-----------------------------------------------------------------------------
(* Bounds of the model                                                     *)

MaxBombs == 2        \* bombs placed in one run
MaxTrails == 2       \* fire trails deposited in one run
MaxTimers == 4       \* setTimeout callbacks pending at once
MaxAbs == 60         \* |value| of a wrapCoordinate call checked on its own
MaxMod == 26         \* max of a wrapCoordinate call checked on its own

-----------------------------------------------------------------------------
(* Maps (JavaScript objects used as dictionaries)                          *)

EmptyMap == [k \in {} |-> 0]
Has(m, k) == k \in DOMAIN m
Put(m, k, v) == [a \in (DOMAIN m) \cup {k} |-> IF a = k THEN v ELSE m[a]]
Del(m, k) == [a \in (DOMAIN m) \ {k} |-> m[a]]
\* the key `${x},${y}`
Key(x, y) == <<x, y>>

-----------------------------------------------------------------------------
(* Coordinate space                                                        *)

RECURSIVE wrapAdd(_, _)
wrapAdd(value, max) ==
    IF value < 0 THEN wrapAdd(value + max, max) ELSE value

RECURSIVE wrapSub(_, _)
wrapSub(value, max) ==
    IF value >= max THEN wrapSub(value - max, max) ELSE value

\* a variant of wrapCoordinate whose second loop tests value > max
RECURSIVE wrapSubStrict(_, _)
wrapSubStrict(value, max) ==
    IF value > max THEN wrapSubStrict(value - max, max) ELSE value

wrapCoordinateStrict(value, max) ==
    wrapSubStrict(wrapAdd(value, max), max)

\* while (value < 0) value += max; while (value >= max) value -= max;
wrapCoordinate(value, max) ==
    wrapSub(wrapAdd(value, max), max)

-----------------------------------------------------------------------------
(* World model                                                             *)

Min(a, b) == IF a < b THEN a ELSE b
Abs(a) == IF a < 0 THEN -a ELSE a
SetMin(S) == CHOOSE a \in S : \A b \in S : a <= b

\* const gameState = { players: {}, bombs: {}, explosions: {}, walls: {}, ... }
EmptyGameState ==
    [players |-> EmptyMap, bombs |-> EmptyMap, explosions |-> EmptyMap,
     walls |-> EmptyMap, powerups |-> EmptyMap, fireTrails |-> EmptyMap]

\* the four starting corners kept free of destructible walls
TooCloseToStart(x, y) ==
    \/ (x <= 2 /\ y <= 2)
    \/ (x >= COLS - 3 /\ y <= 2)
    \/ (x <= 2 /\ y >= ROWS - 3)
    \/ (x >= COLS - 3 /\ y >= ROWS - 3)

\* the fixed walls of initializeWalls: x = 1, 3, .. < COLS-1, y = 1, 3, .. < ROWS-1
FixedWallCells ==
    {c \in (1 .. COLS - 2) \X (1 .. ROWS - 2) : c[1] % 2 = 1 /\ c[2] % 2 = 1}

\* the cells one of the random attempts of initializeWalls can fill
RandomWallCells ==
    {c \in (2 .. COLS - 3) \X (2 .. ROWS - 3) :
        c \notin FixedWallCells /\ ~TooCloseToStart(c[1], c[2])}

\* initializeWalls, its random destructible walls being the cells of D
initializeWalls(gs, D) ==
    [gs EXCEPT !.walls =
        [c \in FixedWallCells \cup (D \cap RandomWallCells) |->
            [x |-> c[1], y |-> c[2], destructible |-> c \notin FixedWallCells]]]

\* a variant of spawnPowerup that spawns nothing
spawnPowerupNever(gs, x, y, kind) == gs

\* spawnPowerup, its random catalog entry being kind
spawnPowerup(gs, x, y, kind) ==
    [gs EXCEPT !.powerups = Put(@, Key(x, y), [x |-> x, y |-> y, type |-> kind])]

\* a held effect: timed ({expiresAt, active}) or counted ({uses, active})
TimedEffect(kind) == [timed |-> TRUE, left |-> Ticks(POWERUPS[kind]), uses |-> 0]
CountedEffect(n) == [timed |-> FALSE, left |-> 0, uses |-> n]

UsesOf(player, kind) ==
    IF Has(player.powerups, kind) /\ ~player.powerups[kind].timed
    THEN player.powerups[kind].uses ELSE 0

\* a variant of Active for which no effect is ever active
ActiveNever(player, kind) == FALSE

\* player.powerups?.<kind>?.active
Active(player, kind) == Has(player.powerups, kind)

\* a variant of CollectExtraLife without the cap
CollectExtraLifeNoCap(player) == [player EXCEPT !.lives = @ + 1]

CollectExtraLife(player) == [player EXCEPT !.lives = Min(@ + 1, MAX_LIVES)]

\* a variant of CollectCounted that adds one use for every kind
CollectCountedAdds(player, type) ==
    [player EXCEPT !.powerups = Put(@, type, CountedEffect(UsesOf(player, type) + 1))]

CollectCounted(player, type) ==
    [player EXCEPT !.powerups =
        Put(@, type, CountedEffect(IF type = "wall_builder" THEN WALL_BUILDER_USES
                                   ELSE UsesOf(player, type) + 1))]

\* the random choices of one collection: the swap partner, the scramble cells
NoChoice == [swap |-> "", cells |-> EmptyMap]

\* a variant of OtherAlive that takes the eliminated players too
OtherAliveOrNot(gs, playerId) == {id \in DOMAIN gs.players : id # playerId}

OtherAlive(gs, playerId) ==
    {id \in DOMAIN gs.players : id # playerId /\ gs.players[id].alive}

AlivePlayers(gs) == {id \in DOMAIN gs.players : gs.players[id].alive}

\* a variant of Collected that leaves the power-up on the ground
CollectedKeeps(gs, players1, key) == [gs EXCEPT !.players = players1]

\* the end of collectPowerup: delete gameState.powerups[key]
Collected(gs, players1, key) == [gs EXCEPT !.players = players1, !.powerups = Del(@, key)]

collectPowerup(gs, playerId, x, y, rnd) ==
    LET key == Key(x, y) IN
    IF ~Has(gs.powerups, key) \/ ~Has(gs.players, playerId) THEN gs
    ELSE
      LET type == gs.powerups[key].type
          player == gs.players[playerId]
          players1 ==
            IF type = "extra_life" THEN
                [gs.players EXCEPT ![playerId] = CollectExtraLife(player)]
            ELSE IF type = "swap" THEN
                IF OtherAlive(gs, playerId) # {} THEN
                    LET target == gs.players[rnd.swap] IN
                    [gs.players EXCEPT
                        ![playerId] = [@ EXCEPT !.x = target.x, !.y = target.y],
                        ![rnd.swap] = [@ EXCEPT !.x = player.x, !.y = player.y]]
                ELSE gs.players
            ELSE IF type = "scramble" THEN
                [id \in DOMAIN gs.players |->
                    IF gs.players[id].alive
                    THEN [gs.players[id] EXCEPT !.x = rnd.cells[id][1],
                                                !.y = rnd.cells[id][2]]
                    ELSE gs.players[id]]
            ELSE IF POWERUPS[type] > 0 THEN
                [gs.players EXCEPT ![playerId].powerups = Put(@, type, TimedEffect(type))]
            ELSE
                [gs.players EXCEPT ![playerId] = CollectCounted(player, type)]
      IN Collected(gs, players1, key)

\* a variant of updatePlayerPowerups that evicts nothing
updatePlayerPowerupsKeeps(player) == player

\* updatePlayerPowerups: now > expiresAt evicts a timed effect
updatePlayerPowerups(player) ==
    [player EXCEPT !.powerups =
        [k \in {j \in DOMAIN @ : ~(@[j].timed /\ @[j].left < 0)} |-> @[k]]]

\* broadcastGameState: the eviction pass; the emitted payload is the result
broadcastGameState(gs) ==
    [gs EXCEPT !.players = [id \in DOMAIN @ |-> updatePlayerPowerups(@[id])]]

SpawnPositions ==
    << <<2, 2>>, <<COLS - 3, 2>>, <<2, ROWS - 3>>, <<COLS - 3, ROWS - 3>> >>

\* a variant of getSpawnPosition that always takes the first position
getSpawnPositionFirst(gs) == SpawnPositions[1]

getSpawnPosition(gs) ==
    LET occupied(pos) ==
            \E id \in DOMAIN gs.players :
                gs.players[id].x = pos[1] /\ gs.players[id].y = pos[2]
        avail == {i \in 1 .. Len(SpawnPositions) :
                    ~occupied(SpawnPositions[i]) /\ ~Has(gs.walls, SpawnPositions[i])}
    IN IF avail # {} THEN SpawnPositions[SetMin(avail)]
       ELSE <<COLS \div 2, ROWS \div 2>>

isValidPosition(gs, x, y) ==
    LET key == Key(wrapCoordinate(x, COLS), wrapCoordinate(y, ROWS))
    IN ~Has(gs.walls, key) /\ ~Has(gs.bombs, key)

-----------------------------------------------------------------------------
(* Bombs and the explosion engine                                          *)

NewBomb(id, x, y, range, type, playerId) ==
    [id |-> id, x |-> x, y |-> y, range |-> range, type |-> type, playerId |-> playerId]

\* one counted use of kind is spent; the effect is deleted at 0
UseOne(player, kind) ==
    IF player.powerups[kind].uses - 1 <= 0
    THEN [player EXCEPT !.powerups = Del(@, kind)]
    ELSE [player EXCEPT !.powerups[kind].uses = @ - 1]

\* a variant of BombChoice that looks at tornado_bomb first
BombChoiceTornadoFirst(player) ==
    IF UsesOf(player, "tornado_bomb") > 0
    THEN [range |-> DEFAULT_RANGE, type |-> "tornado", used |-> "tornado_bomb"]
    ELSE IF UsesOf(player, "mega_bomb") > 0
    THEN [range |-> MEGA_RANGE, type |-> "mega", used |-> "mega_bomb"]
    ELSE [range |-> DEFAULT_RANGE, type |-> "normal", used |-> ""]

\* the bomb a player places: mega before tornado before normal
BombChoice(player) ==
    IF UsesOf(player, "mega_bomb") > 0
    THEN [range |-> MEGA_RANGE, type |-> "mega", used |-> "mega_bomb"]
    ELSE IF UsesOf(player, "tornado_bomb") > 0
    THEN [range |-> DEFAULT_RANGE, type |-> "tornado", used |-> "tornado_bomb"]
    ELSE [range |-> DEFAULT_RANGE, type |-> "normal", used |-> ""]

\* placeBomb returns false: the key holds a bomb, or the player is unknown
PlaceBombRejected(gs, playerId, x, y) ==
    Has(gs.bombs, Key(x, y)) \/ ~Has(gs.players, playerId)

\* const bombKey = `${x},${y}`, of the payload as it came
PlaceBombKey(x, y) == Key(x, y)

\* placeBomb, the world it leaves (the fuse timer is set by the handler's action)
placeBomb(gs, playerId, x, y, id) ==
    IF PlaceBombRejected(gs, playerId, x, y) THEN gs
    ELSE
      LET player == gs.players[playerId]
          c == BombChoice(player)
          player1 == IF c.used = "" THEN player ELSE UseOne(player, c.used)
          k == PlaceBombKey(x, y)
      IN [gs EXCEPT !.players[playerId] = player1,
                    !.bombs = Put(@, k, NewBomb(id, k[1], k[2], c.range, c.type, playerId))]

Explosion(x, y, by) == [x |-> x, y |-> y, by |-> by]

\* checkPlayerExplosionCollisions, over the players in insertion order from i on
RECURSIVE checkPlayerExplosionCollisionsFrom(_, _, _, _)
checkPlayerExplosionCollisionsFrom(gs0, order, i, explosionPositions) ==
    IF i > Len(order) THEN gs0
    ELSE CHOOSE out \in
      { LET id == order[i]
            player == gs.players[id]
            hit == /\ player.alive
                   /\ Key(player.x, player.y) \in explosionPositions
                   /\ ~Active(player, "force_field")
            spawnPos == getSpawnPosition(gs)
            player1 ==
              IF player.lives - 1 > 0
              THEN [player EXCEPT !.lives = @ - 1, !.x = spawnPos[1], !.y = spawnPos[2],
                                  !.alive = TRUE]
              ELSE [player EXCEPT !.lives = @ - 1, !.alive = FALSE]
            gs1 == IF hit THEN [gs EXCEPT !.players[id] = player1] ELSE gs
        IN checkPlayerExplosionCollisionsFrom(gs1, order, i + 1, explosionPositions)
        : gs \in {gs0} } : TRUE

checkPlayerExplosionCollisions(gs, order, explosionPositions) ==
    CHOOSE out \in { checkPlayerExplosionCollisionsFrom(gs, order, 1, cells)
                     : cells \in {explosionPositions} } : TRUE

\* one ray of createNormalExplosion from step i on; acc0 = [gs, positions].
\* The accumulator is bound through a one-element set: TLC then computes it
\* once, also where it evaluates ENABLED.
RECURSIVE explosionRay(_, _, _, _, _, _)
explosionRay(acc0, bomb, dx, dy, i, kindAt) ==
    IF i > bomb.range THEN acc0
    ELSE CHOOSE out \in
      { LET wrappedX == wrapCoordinate(bomb.x + dx * i, COLS)
            wrappedY == wrapCoordinate(bomb.y + dy * i, ROWS)
            wallKey == Key(wrappedX, wrappedY)
            gs1 == [acc.gs EXCEPT
                      !.explosions = Put(@, wallKey, Explosion(wrappedX, wrappedY, bomb.id))]
            positions1 == acc.positions \cup {wallKey}
        IN IF Has(gs1.walls, wallKey) THEN
              IF gs1.walls[wallKey].destructible
              THEN [gs |-> spawnPowerup([gs1 EXCEPT !.walls = Del(@, wallKey)],
                                        wrappedX, wrappedY, kindAt[wallKey]),
                    positions |-> positions1]
              ELSE [gs |-> gs1, positions |-> positions1]
           ELSE explosionRay([gs |-> gs1, positions |-> positions1],
                             bomb, dx, dy, i + 1, kindAt)
        : acc \in {acc0} } : TRUE

\* a variant of Directions without the ray to the west
DirectionsWithoutWest == << <<0, 1>>, <<0, -1>>, <<1, 0>> >>

Directions == << <<0, 1>>, <<0, -1>>, <<1, 0>>, <<-1, 0>> >>

RECURSIVE createNormalExplosionFrom(_, _, _, _)
createNormalExplosionFrom(acc, bomb, d, kindAt) ==
    IF d > Len(Directions) THEN acc
    ELSE createNormalExplosionFrom(
            explosionRay(acc, bomb, Directions[d][1], Directions[d][2], 1, kindAt),
            bomb, d + 1, kindAt)

createNormalExplosion(acc, bomb, kindAt) ==
    createNormalExplosionFrom(acc, bomb, 1, kindAt)

\* a variant of spiralPattern that has the first ring only
spiralPatternFirstRing ==
    << <<0, 1>>, <<1, 1>>, <<1, 0>>, <<1, -1>>, <<0, -1>>, <<-1, -1>>, <<-1, 0>>, <<-1, 1>> >>

spiralPattern ==
    << <<0, 1>>, <<1, 1>>, <<1, 0>>, <<1, -1>>, <<0, -1>>, <<-1, -1>>, <<-1, 0>>, <<-1, 1>>,
       <<0, 2>>, <<1, 2>>, <<2, 1>>, <<2, 0>>, <<2, -1>>, <<1, -2>>, <<0, -2>>, <<-1, -2>>,
       <<-2, -1>>, <<-2, 0>>, <<-2, 1>>, <<-1, 2>>,
       <<0, 3>>, <<1, 3>>, <<2, 3>>, <<3, 2>>, <<3, 1>>, <<3, 0>>, <<3, -1>>, <<3, -2>>,
       <<2, -3>>, <<1, -3>>, <<0, -3>>, <<-1, -3>>, <<-2, -3>>, <<-3, -2>>, <<-3, -1>>,
       <<-3, 0>>, <<-3, 1>>, <<-3, 2>>, <<-2, 3>>, <<-1, 3>> >>

RECURSIVE createTornadoExplosionFrom(_, _, _, _)
createTornadoExplosionFrom(acc0, bomb, n, kindAt) ==
    IF n > Len(spiralPattern) THEN acc0
    ELSE CHOOSE out \in
      { LET wrappedX == wrapCoordinate(bomb.x + spiralPattern[n][1], COLS)
            wrappedY == wrapCoordinate(bomb.y + spiralPattern[n][2], ROWS)
            wallKey == Key(wrappedX, wrappedY)
            gs1 == [acc.gs EXCEPT
                      !.explosions = Put(@, wallKey, Explosion(wrappedX, wrappedY, bomb.id))]
            gs2 == IF Has(gs1.walls, wallKey) /\ gs1.walls[wallKey].destructible
                   THEN spawnPowerup([gs1 EXCEPT !.walls = Del(@, wallKey)],
                                     wrappedX, wrappedY, kindAt[wallKey])
                   ELSE gs1
        IN createTornadoExplosionFrom(
              [gs |-> gs2, positions |-> acc.positions \cup {wallKey}], bomb, n + 1, kindAt)
        : acc \in {acc0} } : TRUE

createTornadoExplosion(acc, bomb, kindAt) ==
    createTornadoExplosionFrom(acc, bomb, 1, kindAt)

\* explodeBomb up to its setTimeout: [gs, positions]; kindAt[c] is the catalog
\* entry spawnPowerup draws at cell c
explodeBomb(gs, order, bomb, kindAt) ==
    LET centerPos == Key(bomb.x, bomb.y)
        acc0 == [gs |-> [gs EXCEPT !.explosions =
                            Put(@, centerPos, Explosion(bomb.x, bomb.y, bomb.id))],
                 positions |-> {centerPos}]
    IN CHOOSE out \in
         { [gs |-> checkPlayerExplosionCollisions(acc1.gs, order, acc1.positions),
            positions |-> acc1.positions]
           : acc1 \in {IF bomb.type = "tornado"
                       THEN createTornadoExplosion(acc0, bomb, kindAt)
                       ELSE createNormalExplosion(acc0, bomb, kindAt)} } : TRUE

\* the destructible walls a detonation of bomb strikes
StruckWalls(gs, bomb) ==
    LET any == [c \in DOMAIN gs.walls |-> "swap"]
        after == explodeBomb(gs, <<>>, bomb, any).gs
    IN (DOMAIN gs.walls) \ (DOMAIN after.walls)

-----------------------------------------------------------------------------
(* Inputs                                                                  *)

\* inputs.socks    the sockets that may connect
\* inputs.pids     the persistentId payloads of setPlayerId
\* inputs.cells    the x,y payloads of move, teleport and buildWall
\* inputs.bombs    the x,y payloads of placeBomb
\* inputs.walls    the sets of random destructible walls initializeWalls may draw
\* inputs.kinds    the catalog entries spawnPowerup may draw
\* inputs.scramble the cells a scramble may draw
\* inputs.blocks   the cells spawnRandomBlock may draw
Inputs(socks, pids, cells, bombs, walls, kinds, scramble, blocks) ==
    [socks |-> socks, pids |-> pids, cells |-> cells, bombs |-> bombs, walls |-> walls,
     kinds |-> kinds, scramble |-> scramble, blocks |-> blocks]

-----------------------------------------------------------------------------
(* Timers                                                                  *)

NoKey == <<0, 0>>
Timer(kind, ms, key, cells, id) ==
    [kind |-> kind, left |-> Ticks(ms), key |-> key, cells |-> cells, id |-> id]

RemoveAt(seq, i) == SubSeq(seq, 1, i - 1) \o SubSeq(seq, i + 1, Len(seq))

\* timers of one delay run in the order they were set
Due(i) ==
    /\ i \in 1 .. Len(timers)
    /\ timers[i].left = 0
    /\ \A j \in 1 .. i - 1 : ~(timers[j].kind = timers[i].kind /\ timers[j].left = 0)

\* op: the handler; x, y: the payload it acted on (0, 0 when it did nothing);
\* ok: it changed the world; bc: it called broadcastGameState
Ran(op, x, y, ok, bc) ==
    [op |-> op, x |-> x, y |-> y, ok |-> ok, bc |-> bc]

\* a handler that returned before changing anything
Rejected(op) ==
    /\ last' = Ran(op, 0, 0, FALSE, FALSE)
    /\ UNCHANGED <<gameState, playerOrder, socketToPlayer, sockets, timers,
                   nextBombId, nextTrailId, snapshot, inputs, wrapCall>>

\* const persistentId = socketToPlayer[socket.id]; player known and alive
Commander(s) == IF Has(socketToPlayer, s) THEN socketToPlayer[s] ELSE ""

\* a variant of MayCommand without the alive test
MayCommandIgnoringAlive(s) ==
    /\ Has(socketToPlayer, s)
    /\ Has(gameState.players, socketToPlayer[s])

MayCommand(s) ==
    /\ Has(socketToPlayer, s)
    /\ Has(gameState.players, socketToPlayer[s])
    /\ gameState.players[socketToPlayer[s]].alive

-----------------------------------------------------------------------------
(* Connection handling                                                     *)

\* the server as started: an empty world, nobody connected
Start(in) ==
    /\ gameState = EmptyGameState
    /\ playerOrder = <<>>
    /\ socketToPlayer = EmptyMap
    /\ sockets = {}
    /\ timers = <<>>
    /\ nextBombId = 1
    /\ nextTrailId = 1
    /\ snapshot = EmptyGameState
    /\ last = Ran("start", 0, 0, TRUE, FALSE)
    /\ inputs = in
    /\ wrapCall = [value |-> 0, max |-> 1, result |-> 0, done |-> TRUE]

\* io.on('connection'): the walls are laid out while no player exists
Connect(s) ==
    /\ s \notin sockets
    /\ sockets' = sockets \cup {s}
    /\ \E D \in (IF DOMAIN gameState.players = {} THEN inputs.walls ELSE {{}}) :
         gameState' = IF DOMAIN gameState.players = {}
                      THEN initializeWalls(gameState, D) ELSE gameState
    /\ last' = Ran("connection", 0, 0, TRUE, FALSE)
    /\ UNCHANGED <<playerOrder, socketToPlayer, timers, nextBombId, nextTrailId,
                   snapshot, inputs, wrapCall>>

NewPlayer(persistentId, spawnPos, playerCount) ==
    [id |-> persistentId, x |-> spawnPos[1], y |-> spawnPos[2],
     color |-> playerCount % NUM_COLORS, alive |-> TRUE, lives |-> START_LIVES,
     powerups |-> EmptyMap]

\* socket.on('setPlayerId')
SetPlayerId(s, persistentId) ==
    /\ s \in sockets
    /\ socketToPlayer' = Put(socketToPlayer, s, persistentId)
    /\ LET isNew == ~Has(gameState.players, persistentId)
           gs1 == IF isNew
                  THEN [gameState EXCEPT !.players =
                          Put(@, persistentId,
                              NewPlayer(persistentId, getSpawnPosition(gameState),
                                        Cardinality(DOMAIN gameState.players)))]
                  ELSE gameState
           gs2 == broadcastGameState(gs1)
       IN /\ gameState' = gs2
          /\ snapshot' = gs2
          /\ playerOrder' = IF isNew THEN Append(playerOrder, persistentId) ELSE playerOrder
    /\ last' = Ran("setPlayerId", 0, 0, TRUE, TRUE)
    /\ UNCHANGED <<sockets, timers, nextBombId, nextTrailId, inputs, wrapCall>>

\* a variant of Disconnect that deletes the player's record with the mapping
DisconnectForgetsPlayer(s) ==
    /\ s \in sockets
    /\ sockets' = sockets \ {s}
    /\ socketToPlayer' = Del(socketToPlayer, s)
    /\ gameState' = [gameState EXCEPT !.players = Del(@, Commander(s))]
    /\ playerOrder' = SelectSeq(playerOrder, LAMBDA id : id # Commander(s))
    /\ last' = Ran("disconnect", 0, 0, TRUE, FALSE)
    /\ UNCHANGED <<timers, nextBombId, nextTrailId, snapshot, inputs, wrapCall>>

\* socket.on('disconnect')
Disconnect(s) ==
    /\ s \in sockets
    /\ sockets' = sockets \ {s}
    /\ socketToPlayer' = Del(socketToPlayer, s)
    /\ last' = Ran("disconnect", 0, 0, TRUE, FALSE)
    /\ UNCHANGED <<gameState, playerOrder, timers, nextBombId, nextTrailId,
                   snapshot, inputs, wrapCall>>

-----------------------------------------------------------------------------
(* Command handlers                                                        *)

Perms(S) ==
    {f \in [1 .. Cardinality(S) -> S] : \A i, j \in DOMAIN f : f[i] = f[j] => i = j}

\* the wrap-aware distance of the magnet along one axis
WrappedDistance(a, b, size) == Min(Abs(a - b), size - Abs(a - b))

\* a variant of powerupsToMove without the radius
powerupsToMoveAll(gs, wrappedX, wrappedY) == DOMAIN gs.powerups

\* the ground power-ups the magnet of a player at (wrappedX, wrappedY) pulls
powerupsToMove(gs, wrappedX, wrappedY) ==
    {k \in DOMAIN gs.powerups :
        /\ WrappedDistance(gs.powerups[k].x, wrappedX, COLS) <= MAGNET_RANGE
        /\ WrappedDistance(gs.powerups[k].y, wrappedY, ROWS) <= MAGNET_RANGE}

\* one step of a power-up at a towards target along an axis of the given size
StepToward(a, target, size) ==
    IF a = target THEN a
    ELSE LET d == target - a
             wrappedD == IF 2 * d > size THEN d - size
                         ELSE IF 2 * d < -size THEN d + size ELSE d
         IN wrapCoordinate(a + (IF wrappedD > 0 THEN 1 ELSE -1), size)

\* the pull, over the power-ups keyed ord[i], ord[i+1], ..
RECURSIVE magnetPull(_, _, _, _, _)
magnetPull(gs, wrappedX, wrappedY, ord, i) ==
    IF i > Len(ord) THEN gs
    ELSE
      LET oldKey == ord[i]
          powerup == gs.powerups[oldKey]
          newX == StepToward(powerup.x, wrappedX, COLS)
          newY == StepToward(powerup.y, wrappedY, ROWS)
          newKey == Key(newX, newY)
          gs1 == IF ~Has(gs.powerups, newKey) /\ ~Has(gs.walls, newKey)
                 THEN [gs EXCEPT !.powerups =
                          Put(Del(@, oldKey), newKey,
                              [powerup EXCEPT !.x = newX, !.y = newY])]
                 ELSE gs
      IN magnetPull(gs1, wrappedX, wrappedY, ord, i + 1)

\* the orders in which Object.values(gameState.powerups) can list the pulled ones
MagnetOrders(gs, player, wrappedX, wrappedY) ==
    IF Active(player, "magnet") THEN Perms(powerupsToMove(gs, wrappedX, wrappedY))
    ELSE {<<>>}

\* the random draws collectPowerup can make at (x, y)
CollectChoices(gs, playerId, x, y) ==
    IF ~Has(gs.powerups, Key(x, y)) THEN {NoChoice}
    ELSE IF gs.powerups[Key(x, y)].type = "swap" /\ OtherAlive(gs, playerId) # {}
    THEN {[swap |-> t, cells |-> EmptyMap] : t \in OtherAlive(gs, playerId)}
    ELSE IF gs.powerups[Key(x, y)].type = "scramble"
    THEN {[swap |-> "", cells |-> f] : f \in [AlivePlayers(gs) -> inputs.scramble]}
    ELSE {NoChoice}

FireTrail(x, y, playerId, stamp) ==
    [x |-> x, y |-> y, playerId |-> playerId, stamp |-> stamp]

\* a variant of CanMove for a bounded world: a target outside the grid is refused
CanMoveRejectsOutside(gs, player, x, y) ==
    /\ x >= 0 /\ x < COLS /\ y >= 0 /\ y < ROWS
    /\ IF Active(player, "ghost_mode")
       THEN ~Has(gs.bombs, Key(x, y))
       ELSE isValidPosition(gs, x, y)

\* const canMove = hasGhostMode ? !gameState.bombs[..] : isValidPosition(x, y)
CanMove(gs, player, x, y) ==
    IF Active(player, "ghost_mode")
    THEN ~Has(gs.bombs, Key(wrapCoordinate(x, COLS), wrapCoordinate(y, ROWS)))
    ELSE isValidPosition(gs, x, y)

\* the move handler's tail with the collision test run against explosion markers too
AfterStepBurns(gs, order, persistentId, wrappedX, wrappedY, ord, rnd) ==
    LET gs3 == magnetPull(gs, wrappedX, wrappedY, ord, 1)
        gs4 == collectPowerup(gs3, persistentId, wrappedX, wrappedY, rnd)
        currentPos == Key(wrappedX, wrappedY)
        gs5 == IF \/ Has(gs4.explosions, currentPos)
                  \/ /\ Has(gs4.fireTrails, currentPos)
                     /\ gs4.fireTrails[currentPos].playerId # persistentId
               THEN checkPlayerExplosionCollisions(gs4, order, {currentPos})
               ELSE gs4
    IN broadcastGameState(gs5)

\* the body of the move handler after the position update
AfterStep(gs, order, persistentId, wrappedX, wrappedY, ord, rnd) ==
    LET gs3 == magnetPull(gs, wrappedX, wrappedY, ord, 1)
        gs4 == collectPowerup(gs3, persistentId, wrappedX, wrappedY, rnd)
        currentPos == Key(wrappedX, wrappedY)
        gs5 == IF /\ Has(gs4.fireTrails, currentPos)
                  /\ gs4.fireTrails[currentPos].playerId # persistentId
               THEN checkPlayerExplosionCollisions(gs4, order, {currentPos})
               ELSE gs4
    IN broadcastGameState(gs5)

\* socket.on('move')
Move(s, x, y) ==
    /\ s \in sockets
    /\ IF ~MayCommand(s) THEN Rejected("move")
       ELSE
         LET persistentId == Commander(s)
             player == gameState.players[persistentId]
             wrappedX == wrapCoordinate(x, COLS)
             wrappedY == wrapCoordinate(y, ROWS)
         IN IF ~CanMove(gameState, player, x, y) THEN Rejected("move")
            ELSE
              LET trail == Active(player, "fire_trail")
                  oldPos == Key(player.x, player.y)
                  gs1 == IF trail
                         THEN [gameState EXCEPT !.fireTrails =
                                 Put(@, oldPos, FireTrail(player.x, player.y,
                                                          persistentId, nextTrailId))]
                         ELSE gameState
                  gs2 == [gs1 EXCEPT !.players[persistentId].x = wrappedX,
                                     !.players[persistentId].y = wrappedY]
              IN /\ trail => (Len(timers) < MaxTimers /\ nextTrailId <= MaxTrails)
                 /\ \E ord \in MagnetOrders(gs2, player, wrappedX, wrappedY) :
                    \E rnd \in CollectChoices(magnetPull(gs2, wrappedX, wrappedY, ord, 1),
                                              persistentId, wrappedX, wrappedY) :
                      LET gs6 == AfterStep(gs2, playerOrder, persistentId,
                                           wrappedX, wrappedY, ord, rnd)
                      IN gameState' = gs6 /\ snapshot' = gs6
                 /\ timers' = IF trail
                              THEN Append(timers, Timer("trail", TRAIL_MS, oldPos, {},
                                                        nextTrailId))
                              ELSE timers
                 /\ nextTrailId' = IF trail THEN nextTrailId + 1 ELSE nextTrailId
                 /\ last' = Ran("move", x, y, TRUE, TRUE)
                 /\ UNCHANGED <<playerOrder, socketToPlayer, sockets, nextBombId, inputs, wrapCall>>

\* socket.on('placeBomb')
PlaceBomb(s, x, y) ==
    /\ s \in sockets
    /\ IF ~MayCommand(s) THEN Rejected("placeBomb")
       ELSE IF PlaceBombRejected(gameState, Commander(s), x, y)
       THEN Rejected("placeBomb")
       ELSE
         /\ Len(timers) < MaxTimers
         /\ nextBombId <= MaxBombs
         /\ LET gs1 == placeBomb(gameState, Commander(s), x, y, nextBombId)
                gs2 == broadcastGameState(gs1)
            IN gameState' = gs2 /\ snapshot' = gs2
         /\ timers' = Append(timers, Timer("fuse", FUSE_MS, PlaceBombKey(x, y), {},
                                           nextBombId))
         /\ nextBombId' = nextBombId + 1
         /\ last' = Ran("placeBomb", x, y, TRUE, TRUE)
         /\ UNCHANGED <<playerOrder, socketToPlayer, sockets, nextTrailId, inputs, wrapCall>>

\* socket.on('teleport')
Teleport(s, x, y) ==
    /\ s \in sockets
    /\ IF ~MayCommand(s) THEN Rejected("teleport")
       ELSE
         LET persistentId == Commander(s)
             player == gameState.players[persistentId]
         IN IF UsesOf(player, "teleport") <= 0 \/ ~isValidPosition(gameState, x, y)
            THEN Rejected("teleport")
            ELSE
              LET player1 == [UseOne(player, "teleport") EXCEPT
                                !.x = wrapCoordinate(x, COLS),
                                !.y = wrapCoordinate(y, ROWS)]
                  gs2 == broadcastGameState([gameState EXCEPT
                                                !.players[persistentId] = player1])
              IN /\ gameState' = gs2 /\ snapshot' = gs2
                 /\ last' = Ran("teleport", x, y, TRUE, TRUE)
                 /\ UNCHANGED <<playerOrder, socketToPlayer, sockets, timers,
                                nextBombId, nextTrailId, inputs, wrapCall>>

\* socket.on('buildWall')
BuildWall(s, x, y) ==
    /\ s \in sockets
    /\ IF ~MayCommand(s) THEN Rejected("buildWall")
       ELSE
         LET persistentId == Commander(s)
             player == gameState.players[persistentId]
             wrappedX == wrapCoordinate(x, COLS)
             wrappedY == wrapCoordinate(y, ROWS)
             wallKey == Key(wrappedX, wrappedY)
             occupied ==
                \/ Has(gameState.walls, wallKey)
                \/ Has(gameState.bombs, wallKey)
                \/ Has(gameState.powerups, wallKey)
                \/ \E id \in DOMAIN gameState.players :
                      gameState.players[id].x = wrappedX /\ gameState.players[id].y = wrappedY
         IN IF UsesOf(player, "wall_builder") <= 0 \/ occupied
            THEN Rejected("buildWall")
            ELSE
              LET gs1 == [gameState EXCEPT
                            !.walls = Put(@, wallKey, [x |-> wrappedX, y |-> wrappedY,
                                                       destructible |-> TRUE]),
                            !.players[persistentId] = UseOne(player, "wall_builder")]
                  gs2 == broadcastGameState(gs1)
              IN /\ gameState' = gs2 /\ snapshot' = gs2
                 /\ last' = Ran("buildWall", x, y, TRUE, TRUE)
                 /\ UNCHANGED <<playerOrder, socketToPlayer, sockets, timers,
                                nextBombId, nextTrailId, inputs, wrapCall>>

-----------------------------------------------------------------------------
(* Timer callbacks                                                         *)

\* a variant of FuseRemoves that leaves the bomb in place
FuseKeeps(bombs, bombKey) == bombs

\* delete gameState.bombs[bombKey]
FuseRemoves(bombs, bombKey) == Del(bombs, bombKey)

\* the setTimeout callback of placeBomb: explodeBomb(gameState.bombs[bombKey]);
\* delete gameState.bombs[bombKey]; broadcastGameState()
Fuse(i) ==
    /\ Due(i)
    /\ timers[i].kind = "fuse"
    /\ LET bombKey == timers[i].key IN
       IF ~Has(gameState.bombs, bombKey) THEN
          /\ gameState' = broadcastGameState(gameState)
          /\ snapshot' = gameState'
          /\ timers' = RemoveAt(timers, i)
          /\ last' = Ran("fuse", bombKey[1], bombKey[2], FALSE, TRUE)
       ELSE
          LET bomb == gameState.bombs[bombKey] IN
          \E kindAt \in [StruckWalls(gameState, bomb) -> inputs.kinds] :
          \E r \in {explodeBomb(gameState, playerOrder, bomb, kindAt)} :
            LET gs2 == broadcastGameState([r.gs EXCEPT !.bombs = FuseRemoves(@, bombKey)])
            IN /\ gameState' = gs2
               /\ snapshot' = gs2
               /\ timers' = Append(RemoveAt(timers, i),
                                   Timer("decay", DECAY_MS, NoKey, r.positions, bomb.id))
               /\ last' = Ran("fuse", bombKey[1], bombKey[2],
                              bomb.id = timers[i].id, TRUE)
    /\ UNCHANGED <<playerOrder, socketToPlayer, sockets, nextBombId, nextTrailId, inputs, wrapCall>>

DelAll(m, keys) == [a \in (DOMAIN m) \ keys |-> m[a]]

\* the setTimeout callback of explodeBomb
Decay(i) ==
    /\ Due(i)
    /\ timers[i].kind = "decay"
    /\ LET gs2 == broadcastGameState(
                    [gameState EXCEPT !.explosions = DelAll(@, timers[i].cells)])
       IN gameState' = gs2 /\ snapshot' = gs2
    /\ timers' = RemoveAt(timers, i)
    /\ last' = Ran("decay", 0, 0, TRUE, TRUE)
    /\ UNCHANGED <<playerOrder, socketToPlayer, sockets, nextBombId, nextTrailId, inputs, wrapCall>>

\* a variant of TrailDecay that leaves the trail
TrailDecayKeeps(i) ==
    /\ Due(i)
    /\ timers[i].kind = "trail"
    /\ timers' = RemoveAt(timers, i)
    /\ last' = Ran("trail", timers[i].key[1], timers[i].key[2], TRUE, FALSE)
    /\ UNCHANGED <<gameState, playerOrder, socketToPlayer, sockets, nextBombId, nextTrailId,
                   snapshot, inputs, wrapCall>>

\* the setTimeout callback of the move handler: delete gameState.fireTrails[oldPos]
TrailDecay(i) ==
    /\ Due(i)
    /\ timers[i].kind = "trail"
    /\ gameState' = [gameState EXCEPT !.fireTrails = Del(@, timers[i].key)]
    /\ timers' = RemoveAt(timers, i)
    /\ last' = Ran("trail", timers[i].key[1], timers[i].key[2], TRUE, FALSE)
    /\ UNCHANGED <<playerOrder, socketToPlayer, sockets, nextBombId, nextTrailId,
                   snapshot, inputs, wrapCall>>

DestructibleCount(gs) ==
    Cardinality({k \in DOMAIN gs.walls : gs.walls[k].destructible})

\* positionEmpty && !tooCloseToStart of spawnRandomBlock
\* a variant of BlockCellFree that does not look at the power-ups
BlockCellFreeOverPowerups(gs, c) ==
    /\ c \in (2 .. COLS - 3) \X (2 .. ROWS - 3)
    /\ ~Has(gs.walls, c)
    /\ ~\E k \in DOMAIN gs.bombs : gs.bombs[k].x = c[1] /\ gs.bombs[k].y = c[2]
    /\ ~\E id \in DOMAIN gs.players : gs.players[id].x = c[1] /\ gs.players[id].y = c[2]
    /\ ~TooCloseToStart(c[1], c[2])

\* a variant of BlockCellFree that does not look at the walls
BlockCellFreeOnWalls(gs, c) ==
    /\ c \in (2 .. COLS - 3) \X (2 .. ROWS - 3)
    /\ ~Has(gs.powerups, c)
    /\ ~\E id \in DOMAIN gs.players : gs.players[id].x = c[1] /\ gs.players[id].y = c[2]

BlockCellFree(gs, c) ==
    /\ c \in (2 .. COLS - 3) \X (2 .. ROWS - 3)
    /\ ~Has(gs.walls, c)
    /\ ~Has(gs.powerups, c)
    /\ ~\E k \in DOMAIN gs.bombs : gs.bombs[k].x = c[1] /\ gs.bombs[k].y = c[2]
    /\ ~\E id \in DOMAIN gs.players : gs.players[id].x = c[1] /\ gs.players[id].y = c[2]
    /\ ~TooCloseToStart(c[1], c[2])

\* the cells spawnRandomBlock may fill; NoKey: it fills none
BlockOutcomes(gs) ==
    IF DOMAIN gs.players = {} \/ DestructibleCount(gs) >= WALL_CAP THEN {NoKey}
    ELSE {NoKey} \cup {c \in inputs.blocks : BlockCellFree(gs, c)}

\* the setTimeout callback of scheduleNextBlockSpawn.  One such timer is pending
\* at all times (it sets its successor); its delay, 8000 + random * 7000 ms, is
\* not tracked: the callback may run at any moment.
BlockSpawn ==
    /\ \E c \in BlockOutcomes(gameState) :
         IF c = NoKey THEN
            /\ UNCHANGED <<gameState, snapshot>>
            /\ last' = Ran("block", 0, 0, FALSE, FALSE)
         ELSE
            /\ gameState' = broadcastGameState(
                              [gameState EXCEPT !.walls =
                                 Put(@, c, [x |-> c[1], y |-> c[2], destructible |-> TRUE])])
            /\ snapshot' = gameState'
            /\ last' = Ran("block", c[1], c[2], TRUE, TRUE)
    /\ UNCHANGED <<playerOrder, socketToPlayer, sockets, timers, nextBombId, nextTrailId,
                   inputs, wrapCall>>

\* TICK_MS pass: every delay and every expiresAt is one tick nearer
Age(gs) ==
    [gs EXCEPT !.players =
        [id \in DOMAIN @ |->
            [@[id] EXCEPT !.powerups =
                [k \in DOMAIN @ |->
                    IF @[k].timed /\ @[k].left >= 0
                    THEN [@[k] EXCEPT !.left = @ - 1] ELSE @[k]]]]]

Tick ==
    /\ \A i \in 1 .. Len(timers) : timers[i].left > 0
    /\ timers' = [i \in 1 .. Len(timers) |-> [timers[i] EXCEPT !.left = @ - 1]]
    /\ gameState' = Age(gameState)
    /\ snapshot' = Age(snapshot)
    /\ last' = Ran("tick", 0, 0, TRUE, FALSE)
    /\ UNCHANGED <<playerOrder, socketToPlayer, sockets, nextBombId, nextTrailId, inputs, wrapCall>>

-----------------------------------------------------------------------------
(* The server                                                              *)

Command ==
    \E s \in inputs.socks :
        \/ \E c \in inputs.cells :
             \/ Move(s, c[1], c[2])
             \/ Teleport(s, c[1], c[2])
             \/ BuildWall(s, c[1], c[2])
        \/ \E c \in inputs.bombs : PlaceBomb(s, c[1], c[2])

Connection ==
    \E s \in inputs.socks :
        \/ Connect(s)
        \/ Disconnect(s)
        \/ \E persistentId \in inputs.pids : SetPlayerId(s, persistentId)

TimerFires ==
    \E i \in 1 .. Len(timers) : Fuse(i) \/ Decay(i) \/ TrailDecay(i)

Next == Command \/ Connection \/ TimerFires \/ BlockSpawn \/ Tick

\* a call of wrapCoordinate on its own
WrapCall ==
    /\ ~wrapCall.done
    /\ wrapCall' = [wrapCall EXCEPT !.result = wrapCoordinate(wrapCall.value, wrapCall.max),
                                    !.done = TRUE]
    /\ UNCHANGED <<gameState, playerOrder, socketToPlayer, sockets, timers, nextBombId,
                   nextTrailId, snapshot, last, inputs>>

-----------------------------------------------------------------------------
(* Runs.  A run starts from the server as started, or from a state of a    *)
(* game in progress: walls laid out, players created and connected, some   *)
(* power-ups collected or lying on the ground, every timer run out.        *)

Player(id, x, y, color, lives, powerups) ==
    [id |-> id, x |-> x, y |-> y, color |-> color, alive |-> TRUE, lives |-> lives,
     powerups |-> powerups]

Held(kind, n) == IF POWERUPS[kind] > 0 THEN [TimedEffect(kind) EXCEPT !.left = n]
                 ELSE CountedEffect(n)

\* P: the players, in the order order; M: socketToPlayer; D: the destructible
\* walls; G: the ground power-ups, cell -> kind
Scene(P, order, M, D, G, in) ==
    /\ gameState =
         [initializeWalls(EmptyGameState, D) EXCEPT
            !.players = P,
            !.powerups = [c \in DOMAIN G |-> [x |-> c[1], y |-> c[2], type |-> G[c]]]]
    /\ playerOrder = order
    /\ socketToPlayer = M
    /\ sockets = DOMAIN M
    /\ timers = <<>>
    /\ nextBombId = 1
    /\ nextTrailId = 1
    /\ snapshot = gameState
    /\ last = Ran("start", 0, 0, TRUE, FALSE)
    /\ inputs = in
    /\ wrapCall = [value |-> 0, max |-> 1, result |-> 0, done |-> TRUE]

One(k, v) == [a \in {k} |-> v]
Two(k1, v1, k2, v2) == [a \in {k1, k2} |-> IF a = k1 THEN v1 ELSE v2]

\* the server as started
Init ==
    Start(Inputs({"s1"}, {"p1"}, {<<2, 2>>, <<4, 2>>, <<27, 2>>},
                 {<<2, 2>>, <<4, 2>>, <<27, 2>>}, {{<<4, 2>>}},
                 {"mega_bomb", "extra_life"}, {<<0, 0>>}, {<<6, 2>>}))

Spec == Init /\ [][Next]_vars

\* one player with 1, 2 or 8 lives next to an extra life
LivesInit ==
    \E lives \in {1, 2, MAX_LIVES} :
        Scene(One("p1", Player("p1", 2, 2, 0, lives, EmptyMap)), <<"p1">>,
              One("s1", "p1"), {}, One(<<4, 2>>, "extra_life"),
              Inputs({"s1"}, {"p1"}, {<<2, 2>>, <<4, 2>>}, {<<2, 2>>, <<4, 2>>}, {{}},
                     {"extra_life"},
                     {<<0, 0>>}, {}))

LivesSpec == LivesInit /\ [][Next]_vars

\* one player at the right edge: next to a scramble and a fixed wall, or in ghost mode
MoveInit ==
    \/ Scene(One("p1", Player("p1", COLS - 1, 2, 0, 2, EmptyMap)), <<"p1">>,
             One("s1", "p1"), {}, One(<<4, 2>>, "scramble"),
             Inputs({"s1"}, {"p1"}, {<<COLS, 2>>, <<COLS + 4, 2>>, <<COLS + 3, 3>>},
                    {<<COLS, 2>>},
                    {{}}, {"scramble"}, {<<0, 0>>, <<6, 2>>}, {}))
    \/ Scene(One("p1", Player("p1", COLS - 1, 2, 0, 2,
                              One("ghost_mode", Held("ghost_mode", 1)))), <<"p1">>,
             One("s1", "p1"), {}, EmptyMap,
             Inputs({"s1"}, {"p1"}, {<<COLS - 1, 2>>, <<COLS + 3, 3>>}, {<<COLS - 1, 2>>},
                    {{}}, {"scramble"}, {<<0, 0>>}, {}))

MoveSpec == MoveInit /\ [][Next]_vars

\* one player holding mega and tornado bombs, two mega bombs, or neither
BombInit ==
    \E held \in {EmptyMap, One("mega_bomb", Held("mega_bomb", 2)),
                 Two("mega_bomb", Held("mega_bomb", 1),
                     "tornado_bomb", Held("tornado_bomb", 1))} :
        Scene(One("p1", Player("p1", 2, 2, 0, START_LIVES, held)), <<"p1">>,
              One("s1", "p1"), {}, EmptyMap,
              Inputs({"s1"}, {"p1"}, {<<2, 2>>, <<6, 2>>}, {<<2, 2>>, <<6, 2>>}, {{}},
                     {"mega_bomb"},
                     {<<0, 0>>}, {}))

BombSpec == BombInit /\ [][Next]_vars

\* timers run whenever they are due, and time passes
\* timers run: time passes, and the event loop runs a callback that is due
FairInit ==
    Scene(One("p1", Player("p1", 2, 2, 0, 1, EmptyMap)), <<"p1">>, One("s1", "p1"), {},
          EmptyMap,
          Inputs({"s1"}, {"p1"}, {<<2, 2>>}, {<<2, 2>>, <<COLS + 2, 2>>},
                 {{}}, {"mega_bomb"},
                 {<<0, 0>>}, {}))
FairSpec == FairInit /\ [][Next]_vars /\ WF_vars(Tick) /\ WF_vars(TimerFires)

\* a game in progress with walls in the way of the blasts: destructible walls
\* at (4,2) and (2,5), the fixed walls of the odd lattice around (2,3); p1
\* holds nothing, a special bomb, a wall_builder or, in a second scene, a magnet
BlastInit ==
    \/ \E held \in {EmptyMap, One("mega_bomb", Held("mega_bomb", 1)),
                    One("tornado_bomb", Held("tornado_bomb", 1)),
                    One("wall_builder", Held("wall_builder", 1))} :
          Scene(One("p1", Player("p1", 2, 2, 0, 2, held)), <<"p1">>,
                One("s1", "p1"), {<<4, 2>>, <<2, 5>>}, EmptyMap,
                Inputs({"s1"}, {"p1"}, {<<2, 3>>, <<3, 3>>}, {<<2, 2>>, <<2, 3>>}, {{}},
                       {"swap"},
                       {<<0, 0>>}, {<<3, 3>>}))
    \/ Scene(One("p1", Player("p1", 2, 2, 0, 2, One("magnet", Held("magnet", 8)))),
             <<"p1">>, One("s1", "p1"), {<<4, 2>>, <<2, 5>>}, EmptyMap,
             Inputs({"s1"}, {"p1"}, {<<2, 3>>}, {<<2, 2>>}, {{}}, {"swap"},
                    {<<0, 0>>}, {}))

BlastSpec == BlastInit /\ [][Next]_vars

\* a game in progress in which p1, alone, leaves fire trails between the fixed
\* walls of column 2
TrailInit ==
    Scene(One("p1", Player("p1", 2, 3, 0, 2, One("fire_trail", Held("fire_trail", 2)))),
          <<"p1">>, One("s1", "p1"), {}, EmptyMap,
          Inputs({"s1"}, {"p1"}, {<<2, 3>>, <<2, 4>>}, {<<2, 3>>}, {{}},
                 {"swap"}, {<<0, 0>>}, {}))

TrailSpec == TrailInit /\ [][Next]_vars

\* a game in progress: p0, whose client has left, stands at (2,4) with its last
\* life; the fire trail it left at (2,3) one tick ago is still burning (its
\* fire_trail effect has run out since).  p1 plays, with or without a force
\* field; a swap and a scramble power-up lie in row 2.
HitInit ==
    \E held \in {EmptyMap, One("force_field", Held("force_field", 6))} :
      /\ gameState =
           [initializeWalls(EmptyGameState, {}) EXCEPT
              !.players = Two("p0", Player("p0", 2, 4, 0, 1, EmptyMap),
                              "p1", Player("p1", 2, 2, 1, 2, held)),
              !.powerups = Two(<<4, 2>>, [x |-> 4, y |-> 2, type |-> "swap"],
                               <<6, 2>>, [x |-> 6, y |-> 2, type |-> "scramble"]),
              !.fireTrails = One(<<2, 3>>, FireTrail(2, 3, "p0", 1))]
      /\ playerOrder = <<"p0", "p1">>
      /\ socketToPlayer = One("s1", "p1")
      /\ sockets = {"s1"}
      /\ timers = << [Timer("trail", TRAIL_MS, <<2, 3>>, {}, 1) EXCEPT !.left = @ - 1] >>
      /\ nextBombId = 1
      /\ nextTrailId = 2
      /\ snapshot = gameState
      /\ last = Ran("start", 0, 0, TRUE, FALSE)
      /\ inputs = Inputs({"s1"}, {"p1"}, {<<2, 3>>, <<4, 2>>, <<6, 2>>}, {<<2, 3>>}, {{}},
                         {"swap"}, {<<0, 0>>}, {})
      /\ wrapCall = [value |-> 0, max |-> 1, result |-> 0, done |-> TRUE]

HitSpec == HitInit /\ [][Next]_vars

\* a game in progress: one of the random walls of the layout stands at the
\* grid centre, and p1 holds a wall_builder with its three uses
SpawnInit ==
    Scene(One("p1", Player("p1", 2, 2, 0, 2, One("wall_builder", Held("wall_builder",
                                                                    WALL_BUILDER_USES)))),
          <<"p1">>, One("s1", "p1"), {<<COLS \div 2, ROWS \div 2>>}, EmptyMap,
          Inputs({"s1"}, {"p1"}, {<<COLS - 3, 2>>, <<2, ROWS - 3>>, <<COLS - 3, ROWS - 3>>},
                 {<<2, 2>>}, {{}}, {"swap"}, {<<0, 0>>}, {}))

SpawnSpec == SpawnInit /\ [][Next]_vars

\* clients joining: the server as started, with two ids to identify with; a
\* game whose four spawn positions are taken by players; a game whose only
\* player stands at (22,2) and can wall up (2,2)
JoinInit ==
    \/ Start(Inputs({"s1"}, {"p1", "p2"}, {<<4, 2>>}, {<<4, 2>>}, {{}},
                    {"swap"}, {<<0, 0>>}, {}))
    \/ Scene([id \in {"p1", "p2", "p3", "p4"} |->
                 IF id = "p1" THEN Player(id, 2, 2, 0, 1, EmptyMap)
                 ELSE IF id = "p2" THEN Player(id, COLS - 3, 2, 1, 1, EmptyMap)
                 ELSE IF id = "p3" THEN Player(id, 2, ROWS - 3, 2, 1, EmptyMap)
                 ELSE Player(id, COLS - 3, ROWS - 3, 3, 1, EmptyMap)],
             <<"p1", "p2", "p3", "p4">>, EmptyMap, {}, EmptyMap,
             Inputs({"s1"}, {"p5"}, {<<4, 2>>}, {<<4, 2>>}, {{}},
                    {"swap"}, {<<0, 0>>}, {}))
    \/ Scene(One("p1", Player("p1", COLS - 3, 2, 0, 1,
                              One("wall_builder", Held("wall_builder", 1)))),
             <<"p1">>, One("s1", "p1"), {}, EmptyMap,
             Inputs({"s1"}, {"p2"}, {<<2, 2>>}, {<<4, 2>>}, {{}},
                    {"swap"}, {<<0, 0>>}, {}))

JoinSpec == JoinInit /\ [][Next]_vars

\* a game in progress: p1 at (4,2) holds teleports (with or without a ghost
\* mode about to run out) or a wall_builder, a swap power-up lies at (6,2);
\* bombs go to (2,2), by that key or by (27,2)
ToolInit ==
    \E held \in {One("teleport", Held("teleport", 2)),
                 Two("teleport", Held("teleport", 1), "ghost_mode", Held("ghost_mode", 1)),
                 One("wall_builder", Held("wall_builder", 2))} :
        Scene(One("p1", Player("p1", 4, 2, 0, 1, held)),
              <<"p1">>, One("s1", "p1"), {}, One(<<6, 2>>, "swap"),
              Inputs({"s1"}, {"p1"}, {<<2, 2>>, <<3, 3>>, <<6, 2>>},
                     {<<2, 2>>, <<COLS + 2, 2>>}, {{}}, {"swap"}, {<<0, 0>>}, {}))

ToolSpec == ToolInit /\ [][Next]_vars

\* p1 beside a ground power-up of an instant, a timed or a counted kind, p2
\* on its other side, the one client speaking for either; and p1 alone, with
\* wall_builder uses left, beside a wall_builder
PickupInit ==
    \/ \E kind \in {"wall_builder", "extra_life", "magnet"} :
          Scene(Two("p1", Player("p1", 4, 2, 0, 1, EmptyMap),
                    "p2", Player("p2", 6, 2, 1, 1, EmptyMap)),
                <<"p1", "p2">>, One("s1", "p1"), {}, One(<<5, 2>>, kind),
                Inputs({"s1"}, {"p1", "p2"}, {<<5, 2>>}, {<<4, 2>>}, {{}},
                       {"swap"}, {<<0, 0>>}, {}))
    \/ \E n \in 1 .. WALL_BUILDER_USES :
          Scene(One("p1", Player("p1", 4, 2, 0, 1,
                                 One("wall_builder", Held("wall_builder", n)))),
                <<"p1">>, One("s1", "p1"), {}, One(<<5, 2>>, "wall_builder"),
                Inputs({"s1"}, {"p1"}, {<<5, 2>>, <<3, 2>>}, {<<4, 2>>}, {{}},
                       {"swap"}, {<<0, 0>>}, {}))

PickupSpec == PickupInit /\ [][Next]_vars

\* p0, with a fire trail effect, and p1 beside it; the one client speaks for
\* either
BurnInit ==
    Scene(Two("p0", Player("p0", 2, 3, 0, 2, One("fire_trail", Held("fire_trail", 2))),
              "p1", Player("p1", 2, 2, 1, 2, EmptyMap)),
          <<"p0", "p1">>, One("s1", "p0"), {}, EmptyMap,
          Inputs({"s1"}, {"p0", "p1"}, {<<2, 3>>}, {<<2, 3>>}, {{}},
                 {"swap"}, {<<0, 0>>}, {}))

BurnSpec == BurnInit /\ [][Next]_vars

\* 149 destructible walls, as the initial layout and 29 block spawns can leave:
\* the rows from 8 on and two cells of row 7
ManyWalls == {c \in RandomWallCells : c[2] > 7 \/ (c[2] = 7 /\ c[1] >= 20)}

\* p1 on a cell the block spawn draws, next to a power-up, a bomb cell and a
\* safe zone it draws too; and p1 in a world one wall short of the cap
BlockInit ==
    \/ Scene(One("p1", Player("p1", 8, 2, 0, 1, EmptyMap)), <<"p1">>, One("s1", "p1"),
             {}, One(<<10, 2>>, "swap"),
             Inputs({"s1"}, {"p1"}, {<<8, 2>>}, {<<6, 2>>, <<COLS + 6, 2>>}, {{}},
                    {"swap"}, {<<0, 0>>}, {<<2, 2>>, <<6, 2>>, <<8, 2>>, <<10, 2>>}))
    \/ Scene(One("p1", Player("p1", 4, 2, 0, 1, EmptyMap)), <<"p1">>, One("s1", "p1"),
             ManyWalls, EmptyMap,
             Inputs({"s1"}, {"p1"}, {<<4, 2>>}, {<<4, 2>>}, {{}},
                    {"swap"}, {<<0, 0>>}, {<<6, 2>>, <<8, 2>>}))

BlockSpec == BlockInit /\ [][Next]_vars

\* p1 with a timed effect about to run out and one teleport use
ExpiryInit ==
    \E kind \in {"fire_trail", "ghost_mode", "force_field", "magnet"} :
        Scene(One("p1", Player("p1", 4, 2, 0, 1,
                               Two(kind, Held(kind, 1), "teleport", Held("teleport", 1)))),
              <<"p1">>, One("s1", "p1"), {}, EmptyMap,
              Inputs({"s1"}, {"p1"}, {<<4, 2>>, <<6, 2>>}, {<<4, 2>>}, {{}},
                     {"swap"}, {<<0, 0>>}, {}))

ExpirySpec == ExpiryInit /\ [][Next]_vars

\* p1 with a magnet next to the west edge; power-ups across the edge, two
\* with the same next cell, one behind a fixed wall and one out of reach
MagnetInit ==
    Scene(One("p1", Player("p1", 1, 2, 0, 1, One("magnet", Held("magnet", 2)))),
          <<"p1">>, One("s1", "p1"), {},
          [c \in {<<COLS - 2, 2>>, <<2, 3>>, <<2, 1>>, <<2, 4>>, <<4, 2>>} |->
              IF c = <<COLS - 2, 2>> THEN "extra_life" ELSE "swap"],
          Inputs({"s1"}, {"p1"}, {<<0, 2>>}, {<<0, 2>>}, {{}},
                 {"swap"}, {<<0, 0>>}, {}))

MagnetSpec == MagnetInit /\ [][Next]_vars

\* an eliminated player, as a detonation leaves it
Eliminated(id, x, y, color) ==
    [Player(id, x, y, color, 1, EmptyMap) EXCEPT !.lives = 0, !.alive = FALSE]

\* p1 beside a swap power-up, with two alive players and an eliminated one in
\* the world, or with the eliminated one only
SwapInit ==
    \/ Scene([id \in {"p1", "p2", "p3", "p4"} |->
                 IF id = "p1" THEN Player("p1", 4, 2, 0, 1, EmptyMap)
                 ELSE IF id = "p2" THEN Player("p2", 6, 2, 1, 1, EmptyMap)
                 ELSE IF id = "p3" THEN Player("p3", 8, 2, 2, 1, EmptyMap)
                 ELSE Eliminated("p4", 10, 2, 3)],
             <<"p1", "p2", "p3", "p4">>, One("s1", "p1"), {}, One(<<5, 2>>, "swap"),
             Inputs({"s1"}, {"p1"}, {<<5, 2>>}, {<<8, 2>>}, {{}},
                    {"swap"}, {<<0, 0>>}, {}))
    \/ Scene(Two("p1", Player("p1", 4, 2, 0, 1, EmptyMap),
                 "p4", Eliminated("p4", 10, 2, 3)),
             <<"p1", "p4">>, One("s1", "p1"), {}, One(<<5, 2>>, "swap"),
             Inputs({"s1"}, {"p1"}, {<<5, 2>>}, {<<8, 2>>}, {{}},
                    {"swap"}, {<<0, 0>>}, {}))

SwapSpec == SwapInit /\ [][Next]_vars

\* p1 with a fire trail effect, bombs and moves on its own cell; time passes
\* and due timers fire
CleanInit ==
    Scene(One("p1", Player("p1", 2, 3, 0, 1, One("fire_trail", Held("fire_trail", 1)))),
          <<"p1">>, One("s1", "p1"), {}, EmptyMap,
          Inputs({"s1"}, {"p1"}, {<<2, 3>>}, {<<2, 3>>}, {{}},
                 {"swap"}, {<<0, 0>>}, {}))

CleanSpec == CleanInit /\ [][Next]_vars /\ WF_vars(Tick) /\ WF_vars(TimerFires)

\* p1 with a magnet and wall_builder uses, two cells from a destructible wall
\* that its bomb reaches; the block spawn draws the wall's cell
CellInit ==
    Scene(One("p1", Player("p1", 2, 2, 0, 2,
                           Two("magnet", Held("magnet", 8),
                               "wall_builder", Held("wall_builder", 2)))),
          <<"p1">>, One("s1", "p1"), {<<4, 2>>}, EmptyMap,
          Inputs({"s1"}, {"p1"}, {<<2, 2>>, <<3, 2>>, <<4, 2>>}, {<<2, 2>>}, {{}},
                 {"swap"}, {<<0, 0>>}, {<<4, 2>>}))

CellSpec == CellInit /\ [][Next]_vars

\* a world one wall short of the cap, p1 with two wall_builder uses
CapInit ==
    Scene(One("p1", Player("p1", 4, 2, 0, 1,
                           One("wall_builder", Held("wall_builder", 2)))),
          <<"p1">>, One("s1", "p1"), ManyWalls, EmptyMap,
          Inputs({"s1"}, {"p1"}, {<<6, 2>>, <<8, 2>>}, {<<4, 2>>}, {{}},
                 {"swap"}, {<<0, 0>>}, {<<10, 2>>}))

CapSpec == CapInit /\ [][Next]_vars

WrapInit ==
    /\ gameState = EmptyGameState
    /\ playerOrder = <<>>
    /\ socketToPlayer = EmptyMap
    /\ sockets = {}
    /\ timers = <<>>
    /\ nextBombId = 1
    /\ nextTrailId = 1
    /\ snapshot = EmptyGameState
    /\ last = Ran("start", 0, 0, TRUE, FALSE)
    /\ inputs = Inputs({}, {}, {}, {}, {}, {}, {}, {})
    /\ \E value \in -MaxAbs .. MaxAbs, max \in 1 .. MaxMod :
         wrapCall = [value |-> value, max |-> max, result |-> 0, done |-> FALSE]

WrapSpec == WrapInit /\ [][WrapCall]_vars

-----------------------------------------------------------------------------
(* Properties                                                              *)

Players == gameState.players
Bombs == gameState.bombs
Walls == gameState.walls
Powerups == gameState.powerups

InGrid(e) == e.x \in 0 .. COLS - 1 /\ e.y \in 0 .. ROWS - 1
AllInGrid(m) == \A k \in DOMAIN m : InGrid(m[k])

\* C1: the coordinates stored on every player, bomb, explosion, wall, ground
\* power-up and fire trail lie in [0,COLS) x [0,ROWS)
C1_CoordinatesWrapped ==
    /\ AllInGrid(gameState.players)
    /\ AllInGrid(gameState.bombs)
    /\ AllInGrid(gameState.explosions)
    /\ AllInGrid(gameState.walls)
    /\ AllInGrid(gameState.powerups)
    /\ AllInGrid(gameState.fireTrails)

\* C2: every player's lives is in [0,8], and a player is not alive exactly when
\* its lives is 0
C2_LivesAndAlive ==
    \A id \in DOMAIN Players :
        /\ Players[id].lives \in 0 .. 8
        /\ (~Players[id].alive) <=> (Players[id].lives = 0)

\* a player has lost its last life and is marked not alive
C2_Eliminated ==
    \E id \in DOMAIN Players : ~Players[id].alive /\ Players[id].lives = 0

\* the grid cell the stored coordinates of an entity denote on the torus
CellOf(e) == <<e.x % COLS, e.y % ROWS>>
OnePerCell(m) == \A j, k \in DOMAIN m : CellOf(m[j]) = CellOf(m[k]) => j = k

\* C3: no two bombs, no two walls and no two ground power-ups denote the same
\* grid cell
C3_OnePerCell ==
    /\ OnePerCell(gameState.bombs)
    /\ OnePerCell(gameState.walls)
    /\ OnePerCell(gameState.powerups)

\* C4: for every integer v and positive m, wrapCoordinate(v, m) is the r with
\* 0 <= r < m that is congruent to v modulo m: the floor-mod of v by m
C4_WrapIsFloorMod ==
    wrapCall.done =>
        /\ wrapCall.result \in 0 .. wrapCall.max - 1
        /\ (wrapCall.result - wrapCall.value) % wrapCall.max = 0
        /\ wrapCall.result = wrapCall.value % wrapCall.max

\* wrapCoordinate(-1, COLS) has returned COLS - 1
C4_WrappedNegative ==
    /\ wrapCall.done
    /\ wrapCall.value = -1
    /\ wrapCall.max = COLS
    /\ wrapCall.result = COLS - 1

\* the socket's command is for a known player whose alive flag is true
KnownAlive(s) ==
    /\ s \in sockets
    /\ s \in DOMAIN socketToPlayer
    /\ socketToPlayer[s] \in DOMAIN Players
    /\ Players[socketToPlayer[s]].alive

Target(c) == <<c[1] % COLS, c[2] % ROWS>>
OutsideGrid(c) == ~(c[1] \in 0 .. COLS - 1 /\ c[2] \in 0 .. ROWS - 1)
CellHoldsWall(t) == \E k \in DOMAIN Walls : CellOf(Walls[k]) = t
CellHoldsBomb(t) == \E k \in DOMAIN Bombs : CellOf(Bombs[k]) = t
PositionBefore(s) ==
    <<Players[socketToPlayer[s]].x, Players[socketToPlayer[s]].y>>
PositionAfter(s) ==
    <<gameState'.players[socketToPlayer[s]].x, gameState'.players[socketToPlayer[s]].y>>

\* the handler itself moves the player on from cell t: a swap or scramble
\* power-up lies at t (or where the mover's magnet reaches it), or another
\* player's fire trail lies at t
Relocating(s, t) ==
    \/ \E k \in DOMAIN Powerups :
         /\ Powerups[k].type \in {"swap", "scramble"}
         /\ \/ k = t
            \/ /\ "magnet" \in DOMAIN Players[socketToPlayer[s]].powerups
               /\ WrappedDistance(Powerups[k].x, t[1], COLS) <= 3
               /\ WrappedDistance(Powerups[k].y, t[2], ROWS) <= 3
    \/ /\ t \in DOMAIN gameState.fireTrails
       /\ gameState.fireTrails[t].playerId # socketToPlayer[s]

\* C5: a move by an alive player to a target outside the grid is accepted when
\* the wrapped target cell holds no wall and no bomb, and the player's position
\* after it is exactly (x mod COLS, y mod ROWS)
C5_WrappedMoveLands ==
    [][\A s \in inputs.socks : \A c \in inputs.cells :
         ( /\ KnownAlive(s)
           /\ OutsideGrid(c)
           /\ ~CellHoldsWall(Target(c))
           /\ ~CellHoldsBomb(Target(c))
           /\ Move(s, c[1], c[2]) )
         => (last'.ok /\ PositionAfter(s) = Target(c))]_vars

\* C5 (amended): such a move is accepted and broadcast, and the position after
\* it is exactly (x mod COLS, y mod ROWS) unless a swap or scramble power-up
\* collected at the target, or another player's fire trail there, moves the
\* player on within the same handler
C5_WrappedMoveLandsUnlessRelocated ==
    [][\A s \in inputs.socks : \A c \in inputs.cells :
         ( /\ KnownAlive(s)
           /\ OutsideGrid(c)
           /\ ~CellHoldsWall(Target(c))
           /\ ~CellHoldsBomb(Target(c))
           /\ Move(s, c[1], c[2]) )
         => /\ last'.ok
            /\ last'.bc
            /\ ~Relocating(s, Target(c)) => PositionAfter(s) = Target(c)]_vars

\* a move to x = COLS from column COLS - 1 has ended in column 0
C5_WrappedAcross ==
    /\ last = Ran("move", COLS, 2, TRUE, TRUE)
    /\ \E id \in DOMAIN Players : Players[id].x = 0 /\ Players[id].y = 2

\* C6: a move whose wrapped target cell holds a wall leaves the position
\* unchanged and publishes no snapshot unless the player holds ghost_mode, and
\* then it succeeds; a move whose wrapped target cell holds a bomb fails with or
\* without ghost_mode
C6_WallAndBombBlock ==
    [][\A s \in inputs.socks : \A c \in inputs.cells :
         (KnownAlive(s) /\ Move(s, c[1], c[2])) =>
           LET t == Target(c)
               ghost == "ghost_mode" \in DOMAIN Players[socketToPlayer[s]].powerups
           IN /\ (CellHoldsWall(t) /\ ~ghost) =>
                   /\ PositionAfter(s) = PositionBefore(s)
                   /\ ~last'.bc
                   /\ snapshot' = snapshot
              /\ (CellHoldsWall(t) /\ ghost /\ ~CellHoldsBomb(t)) =>
                   (last'.ok /\ last'.bc)
              /\ CellHoldsBomb(t) =>
                   (~last'.ok /\ PositionAfter(s) = PositionBefore(s))]_vars

\* C6 with a bomb found by the key of the wrapped target, as the handler looks
\* it up: holds as long as bombs are keyed by their cell
C6_WallAndBombKeyBlock ==
    [][\A s \in inputs.socks : \A c \in inputs.cells :
         (KnownAlive(s) /\ Move(s, c[1], c[2])) =>
           LET t == Target(c)
               ghost == "ghost_mode" \in DOMAIN Players[socketToPlayer[s]].powerups
           IN /\ (CellHoldsWall(t) /\ ~ghost) =>
                   /\ PositionAfter(s) = PositionBefore(s)
                   /\ ~last'.bc
                   /\ snapshot' = snapshot
              /\ (CellHoldsWall(t) /\ ghost /\ t \notin DOMAIN Bombs) =>
                   (last'.ok /\ last'.bc)
              /\ t \in DOMAIN Bombs =>
                   (~last'.ok /\ PositionAfter(s) = PositionBefore(s))]_vars

\* the socket's command is for an unknown player or one that is not alive
UnknownOrDead(s) ==
    \/ s \notin DOMAIN socketToPlayer
    \/ socketToPlayer[s] \notin DOMAIN Players
    \/ ~Players[socketToPlayer[s]].alive

\* C7: a move, placeBomb, teleport or buildWall for an unknown player or a
\* player that is not alive changes nothing of the world, schedules no timer
\* and publishes no snapshot
C7_UnknownOrDeadIgnored ==
    [][\A s \in inputs.socks : \A c \in inputs.cells \cup inputs.bombs :
         ( /\ s \in sockets
           /\ UnknownOrDead(s)
           /\ \/ Move(s, c[1], c[2])
              \/ PlaceBomb(s, c[1], c[2])
              \/ Teleport(s, c[1], c[2])
              \/ BuildWall(s, c[1], c[2]) )
         => /\ UNCHANGED <<gameState, timers, snapshot, playerOrder, socketToPlayer,
                           nextBombId, nextTrailId>>
            /\ ~last'.ok
            /\ ~last'.bc]_vars

\* a command has just been turned down while every connected socket speaks for
\* an unknown or eliminated player, one player being eliminated
C7_IgnoredCommand ==
    /\ last.op \in {"move", "placeBomb", "teleport", "buildWall"}
    /\ ~last.ok
    /\ sockets # {}
    /\ \A s \in sockets : UnknownOrDead(s)
    /\ \E id \in DOMAIN Players : ~Players[id].alive

\* C8: placeBomb on a cell that already holds a bomb changes nothing: the bomb
\* is kept, no fuse is scheduled, no mega_bomb or tornado_bomb use is consumed,
\* no snapshot is published
C8_OccupiedCellRejects ==
    [][\A s \in inputs.socks : \A c \in inputs.bombs :
         (KnownAlive(s) /\ CellHoldsBomb(Target(c)) /\ PlaceBomb(s, c[1], c[2]))
         => /\ UNCHANGED <<gameState, timers, snapshot, nextBombId>>
            /\ ~last'.ok
            /\ ~last'.bc]_vars

\* C8 with the bomb found by the key of the payload, as placeBomb looks it up
C8_OccupiedKeyRejects ==
    [][\A s \in inputs.socks : \A c \in inputs.bombs :
         (KnownAlive(s) /\ c \in DOMAIN Bombs /\ PlaceBomb(s, c[1], c[2]))
         => /\ UNCHANGED <<gameState, timers, snapshot, nextBombId>>
            /\ ~last'.ok
            /\ ~last'.bc]_vars

\* the uses of a counted effect a player record holds (0 when it holds none)
Uses(p, kind) == IF kind \in DOMAIN p.powerups THEN p.powerups[kind].uses ELSE 0

\* C9: a successful placeBomb makes a mega bomb of range 6 for one mega_bomb
\* use when the player has one (tornado_bomb untouched), else a tornado bomb of
\* range 3 for one tornado_bomb use when the player has one, else a normal bomb
\* of range 3; an effect whose uses reach 0 is removed from the player
C9_BombKindByPriority ==
    [][\A s \in inputs.socks : \A c \in inputs.bombs :
         (KnownAlive(s) /\ c \notin DOMAIN Bombs /\ PlaceBomb(s, c[1], c[2])) =>
           LET before == Players[socketToPlayer[s]]
               after == gameState'.players[socketToPlayer[s]]
               placed == gameState'.bombs[c]
           IN /\ last'.ok
              /\ c \in DOMAIN gameState'.bombs
              /\ IF Uses(before, "mega_bomb") >= 1
                 THEN /\ placed.type = "mega" /\ placed.range = 6
                      /\ Uses(after, "mega_bomb") = Uses(before, "mega_bomb") - 1
                      /\ Uses(after, "tornado_bomb") = Uses(before, "tornado_bomb")
                 ELSE IF Uses(before, "tornado_bomb") >= 1
                 THEN /\ placed.type = "tornado" /\ placed.range = 3
                      /\ Uses(after, "tornado_bomb") = Uses(before, "tornado_bomb") - 1
                      /\ Uses(after, "mega_bomb") = 0
                 ELSE /\ placed.type = "normal" /\ placed.range = 3
                      /\ after.powerups = before.powerups
              /\ \A kind \in {"mega_bomb", "tornado_bomb"} :
                   kind \in DOMAIN after.powerups => after.powerups[kind].uses >= 1]_vars

\* a mega bomb of range 6 lies in the world, placed by a player who held
\* mega_bomb and tornado_bomb: the mega_bomb effect is used up and removed, the
\* tornado_bomb use is still there
C9_MegaPlacedTornadoKept ==
    \E k \in DOMAIN Bombs :
        /\ Bombs[k].type = "mega"
        /\ Bombs[k].range = 6
        /\ Bombs[k].playerId \in DOMAIN Players
        /\ "mega_bomb" \notin DOMAIN Players[Bombs[k].playerId].powerups
        /\ Uses(Players[Bombs[k].playerId], "tornado_bomb") = 1

\* the bomb with this id lies in the world
BombInWorld(id) == \E k \in DOMAIN Bombs : Bombs[k].id = id

\* the pending fuse timers of the bomb under key k
FusesOf(k) == {i \in 1 .. Len(timers) : timers[i].kind = "fuse" /\ timers[i].key = k}

\* C10: a placed bomb stays until its own fuse timer fires and is removed only
\* by that firing; every fuse firing finds the bomb that scheduled it and
\* removes it; with timers firing, every placed bomb is eventually removed
C10_OwnFuseDetonates ==
    /\ [](\A k \in DOMAIN Bombs :
            /\ Cardinality(FusesOf(k)) = 1
            /\ \A i \in FusesOf(k) : timers[i].id = Bombs[k].id)
    /\ [](last.op = "fuse" => last.ok)
    /\ [][\A k \in DOMAIN Bombs :
            (k \notin DOMAIN gameState'.bombs \/ gameState'.bombs[k].id # Bombs[k].id)
            => (last' = Ran("fuse", k[1], k[2], TRUE, TRUE))]_vars
    /\ [][\A i \in 1 .. Len(timers) :
            Fuse(i) => timers[i].key \notin DOMAIN gameState'.bombs]_vars
    /\ \A id \in 1 .. MaxBombs : BombInWorld(id) ~> ~BombInWorld(id)

\* a fuse has just fired on its own bomb and no bomb is left in the world
C10_Detonated ==
    /\ last.op = "fuse"
    /\ last.ok
    /\ nextBombId > 1
    /\ Bombs = EmptyMap

-----------------------------------------------------------------------------
\* Detonations

FourWays == {<<0, 1>>, <<0, -1>>, <<1, 0>>, <<-1, 0>>}

\* the cell i steps from the bomb in direction d
BlastCell(bomb, d, i) ==
    Key(wrapCoordinate(bomb.x + d[1] * i, COLS), wrapCoordinate(bomb.y + d[2] * i, ROWS))

\* how far the ray in direction d goes: to its first wall, or the bomb's range
Reach(walls, bomb, d) ==
    LET stops == {i \in 1 .. bomb.range : Has(walls, BlastCell(bomb, d, i))}
    IN IF stops = {} THEN bomb.range ELSE SetMin(stops)

RayCells(walls, bomb) ==
    {Key(bomb.x, bomb.y)} \cup
    UNION {{BlastCell(bomb, d, i) : i \in 1 .. Reach(walls, bomb, d)} : d \in FourWays}

ClearRays(walls, bomb) ==
    \A d \in FourWays : \A i \in 1 .. bomb.range : ~Has(walls, BlastCell(bomb, d, i))

\* timer i is the fuse of a bomb that is still in the world, and it runs
Detonates(i) == Fuse(i) /\ Has(gameState.bombs, timers[i].key)

\* the cells the detonation of this step wrote: those its decay timer holds
BlastOfStep == timers'[Len(timers')].cells

\* C11: a normal or mega detonation covers the bomb's cell and, on each of the
\* four rays by itself, the cells up to and including the first wall or up to
\* the range (3, mega 6): 1 + 4 * range cells when no wall is in the way
C11_RaysStopAtWalls ==
    [][\A i \in 1 .. Len(timers) :
         (Detonates(i) /\ gameState.bombs[timers[i].key].type # "tornado") =>
            LET bomb == gameState.bombs[timers[i].key] IN
            /\ bomb.range = IF bomb.type = "mega" THEN MEGA_RANGE ELSE DEFAULT_RANGE
            /\ BlastOfStep = RayCells(gameState.walls, bomb)
            /\ \A c \in BlastOfStep :
                 Has(gameState'.explosions, c) /\ gameState'.explosions[c].by = bomb.id
            /\ ClearRays(gameState.walls, bomb) =>
                 Cardinality(BlastOfStep) = 1 + 4 * bomb.range]_vars

\* a blast from (2,2) that went east as far as the wall at (4,2) and no further
C11_RayStoppedAtWall ==
    \E i \in 1 .. Len(timers) :
       /\ timers[i].kind = "decay"
       /\ {<<2, 2>>, <<3, 2>>, <<4, 2>>} \subseteq timers[i].cells
       /\ <<5, 2>> \notin timers[i].cells
       /\ <<0, 2>> \in timers[i].cells
       /\ ~Has(gameState.walls, <<4, 2>>)

\* the offsets of the tornado pattern: the three rings around the bomb, without
\* the corners of the second and the third
SpiralOffsets ==
    {d \in (-3 .. 3) \X (-3 .. 3) :
        d # <<0, 0>> /\ ~(Abs(d[1]) = Abs(d[2]) /\ Abs(d[1]) >= 2)}

SpiralCells(bomb) == {BlastCell(bomb, d, 1) : d \in SpiralOffsets}

\* C12: a tornado detonation marks the bomb's cell and the 40 wrapped cells of
\* the spiral pattern, 41 cells, whatever walls there are; each destructible
\* wall on one of the 40 cells is gone afterwards and a power-up lies there
C12_TornadoCoversSpiral ==
    [][\A i \in 1 .. Len(timers) :
         (Detonates(i) /\ gameState.bombs[timers[i].key].type = "tornado") =>
            LET bomb == gameState.bombs[timers[i].key] IN
            /\ Cardinality(SpiralOffsets) = 40
            /\ BlastOfStep = {Key(bomb.x, bomb.y)} \cup SpiralCells(bomb)
            /\ Cardinality(BlastOfStep) = 41
            /\ \A c \in BlastOfStep :
                 Has(gameState'.explosions, c) /\ gameState'.explosions[c].by = bomb.id
            /\ \A c \in SpiralCells(bomb) :
                 (Has(gameState.walls, c) /\ gameState.walls[c].destructible) =>
                    ~Has(gameState'.walls, c) /\ Has(gameState'.powerups, c)]_vars

\* a tornado blast of 41 cells that went past the fixed wall at (3,3), took the
\* walls at (4,2) and (2,5) and left power-ups there
C12_TornadoPassedWalls ==
    \E i \in 1 .. Len(timers) :
       /\ timers[i].kind = "decay"
       /\ Cardinality(timers[i].cells) = 41
       /\ {<<3, 3>>, <<4, 4>>, <<4, 2>>, <<2, 5>>} \subseteq timers[i].cells
       /\ Has(gameState.walls, <<3, 3>>)
       /\ ~Has(gameState.walls, <<4, 2>>) /\ Has(gameState.powerups, <<4, 2>>)
       /\ ~Has(gameState.walls, <<2, 5>>) /\ Has(gameState.powerups, <<2, 5>>)

\* the indestructible walls of a world, cell -> wall
Indestructible(gs) ==
    [c \in {k \in DOMAIN gs.walls : ~gs.walls[k].destructible} |-> gs.walls[c]]

\* C13: once the walls are initialised, no step of the server adds, removes or
\* alters an indestructible wall
C13_IndestructibleWallsStay ==
    [][gameState.walls # EmptyMap =>
         \/ gameState'.walls = gameState.walls
         \/ Indestructible(gameState') = Indestructible(gameState)]_vars

\* a blast has just covered the fixed wall at (3,3), next to a wall the player
\* built at (2,3), and the fixed wall stands
C13_FixedWallInBlast ==
    /\ last.op = "fuse" /\ last.ok
    /\ Has(gameState.explosions, <<3, 3>>)
    /\ Has(gameState.walls, <<3, 3>>) /\ ~gameState.walls[<<3, 3>>].destructible
    /\ Has(gameState.walls, <<2, 3>>) /\ gameState.walls[<<2, 3>>].destructible
    /\ DOMAIN Indestructible(gameState) = FixedWallCells

\* the destructible walls the blast of bomb reaches on a ray or on a cell of the
\* spiral, given the cells of the blast
Struck(gs, bomb, blast) ==
    {c \in blast \ {Key(bomb.x, bomb.y)} : Has(gs.walls, c) /\ gs.walls[c].destructible}

C14_PowerupPulled ==
    /\ last.op = "move"
    /\ \E c \in DOMAIN gameState.powerups : c \notin {<<4, 2>>, <<2, 5>>}

-----------------------------------------------------------------------------
\* Hits

\* what one collision resolution over the cells lethal may do to a player: p
\* as the resolution found it, q at the end of the step
Resolved(p, q, lethal) ==
    LET on == p.alive /\ Key(p.x, p.y) \in lethal
        shield == Has(p.powerups, "force_field")
    IN /\ (on /\ shield) =>
            /\ q.lives = p.lives /\ q.x = p.x /\ q.y = p.y /\ q.alive
            /\ \/ /\ Has(q.powerups, "force_field")
                  /\ q.powerups["force_field"] = p.powerups["force_field"]
               \/ p.powerups["force_field"].left < 0
       /\ (on /\ ~shield) => q.lives = p.lives - 1
       /\ ~on => q.lives = p.lives /\ q.x = p.x /\ q.y = p.y /\ q.alive = p.alive

\* the accepted move of this step has put the player of s on the fire trail of
\* somebody else at cell t, and there was nothing to collect at t
SteppedOnTrail(s, c) ==
    /\ Move(s, c[1], c[2]) /\ last'.ok
    /\ ~Has(gameState.powerups, Target(c))
    /\ ~Has(gameState.players[Commander(s)].powerups, "magnet")
    /\ Has(gameState'.fireTrails, Target(c))
    /\ gameState'.fireTrails[Target(c)].playerId # Commander(s)

\* C15: in a collision resolution, by a detonation or by a step onto a fire
\* trail, an alive player on a lethal cell with a force field keeps lives,
\* position and alive flag and the field is left as it was (a field past its
\* time is evicted by the snapshot that ends the step); one without a force
\* field loses exactly one life; a player not on a lethal cell keeps lives,
\* position and alive flag
C15_ForceFieldProtects ==
    [][/\ \A i \in 1 .. Len(timers) :
            Detonates(i) =>
              \A id \in DOMAIN gameState.players :
                 Resolved(gameState.players[id], gameState'.players[id], BlastOfStep)
       /\ \A s \in inputs.socks : \A c \in inputs.cells :
            SteppedOnTrail(s, c) =>
              \A id \in DOMAIN gameState.players :
                 Resolved(IF id = Commander(s)
                          THEN [gameState.players[id] EXCEPT !.x = Target(c)[1],
                                                             !.y = Target(c)[2]]
                          ELSE gameState.players[id],
                          gameState'.players[id], {Target(c)})]_vars

\* a detonation has just covered both players: p1, behind its force field, is
\* where and as it was, p0 has lost its last life
C15_ShieldedInBlast ==
    /\ last.op = "fuse" /\ last.ok
    /\ LET p1 == gameState.players["p1"] IN
         /\ Has(gameState.explosions, Key(p1.x, p1.y))
         /\ Has(p1.powerups, "force_field")
         /\ p1.lives = 2 /\ p1.alive
    /\ gameState.players["p0"].lives = 0

\* p1 has just stepped on p0's fire trail at (2,3) behind its force field
C15_ShieldedOnTrail ==
    /\ last.op = "move" /\ last.ok
    /\ Has(gameState.fireTrails, <<2, 3>>) /\ gameState.fireTrails[<<2, 3>>].playerId = "p0"
    /\ LET p1 == gameState.players["p1"] IN
         p1.x = 2 /\ p1.y = 3 /\ Has(p1.powerups, "force_field") /\ p1.lives = 2

\* p1 has just stepped on p0's fire trail without a force field and is back at
\* a spawn position with one life less
C15_BurntOnTrail ==
    /\ last.op = "move" /\ last.ok /\ last.x = 2 /\ last.y = 3
    /\ Has(gameState.fireTrails, <<2, 3>>) /\ gameState.fireTrails[<<2, 3>>].playerId = "p0"
    /\ LET p1 == gameState.players["p1"] IN
         <<p1.x, p1.y>> = <<2, 2>> /\ p1.lives = 1 /\ p1.alive

\* C16: a player whose lives have reached 0 is not alive, and no step changes
\* its lives, its alive flag or its position any more
C16_EliminatedForGood ==
    [][\A id \in DOMAIN gameState'.players :
         /\ gameState'.players[id].lives <= 0 =>
              gameState'.players[id].lives = 0 /\ ~gameState'.players[id].alive
         /\ (id \in DOMAIN gameState.players /\ gameState.players[id].lives = 0) =>
              /\ gameState'.players[id].lives = 0
              /\ gameState'.players[id].x = gameState.players[id].x
              /\ gameState'.players[id].y = gameState.players[id].y]_vars

\* p0 lies eliminated where the blast found it, and p1 has just collected the
\* swap power-up at (4,2)
C16_SwapAfterElimination ==
    /\ last.op = "move" /\ last.ok /\ last.x = 4 /\ last.y = 2
    /\ ~Has(gameState.powerups, <<4, 2>>)
    /\ LET p0 == gameState.players["p0"] IN
         p0.lives = 0 /\ ~p0.alive /\ p0.x = 2 /\ p0.y = 4
    /\ gameState.players["p1"].x = 4 /\ gameState.players["p1"].y = 2

\* p1 has just collected the scramble power-up with p0 eliminated
C16_ScrambleAfterElimination ==
    /\ last.op = "move" /\ last.ok /\ last.x = 6 /\ last.y = 2
    /\ ~Has(gameState.powerups, <<6, 2>>)
    /\ gameState.players["p0"].lives = 0
    /\ gameState.players["p1"].x = 0 /\ gameState.players["p1"].y = 0

\* p1 is eliminated too, and its client has just sent a command
C16_CommandAfterElimination ==
    /\ last.op \in {"move", "placeBomb", "teleport", "buildWall"} /\ ~last.ok
    /\ gameState.players["p1"].lives = 0
    /\ Commander("s1") = "p1"

\* C17: a player a detonation hits with lives to spare is alive afterwards, on
\* a cell that holds no wall and no other player
C17_RespawnOnFreeCell ==
    [][\A i \in 1 .. Len(timers) :
         Detonates(i) =>
           \A id \in DOMAIN gameState.players :
              LET p == gameState.players[id]
                  q == gameState'.players[id]
              IN (/\ p.alive /\ Key(p.x, p.y) \in BlastOfStep
                  /\ ~Has(p.powerups, "force_field") /\ p.lives > 1) =>
                    /\ q.alive
                    /\ ~Has(gameState'.walls, Key(q.x, q.y))
                    /\ \A o \in DOMAIN gameState'.players \ {id} :
                         Key(gameState'.players[o].x, gameState'.players[o].y)
                            # Key(q.x, q.y)]_vars

-----------------------------------------------------------------------------
\* Removal of temporary effects

\* C18: the decay timer of a detonation removes the markers that detonation
\* wrote, all of them and no others: a marker a later detonation wrote stays
\* until that detonation's own decay
C18_DecayRemovesOwnMarkers ==
    [][\A i \in 1 .. Len(timers) :
         Decay(i) =>
           \A c \in DOMAIN gameState.explosions :
              Has(gameState'.explosions, c) <=> gameState.explosions[c].by # timers[i].id]_vars

\* the same, markers being told apart by their cell only: the decay timer of a
\* detonation clears the cells that detonation covered, and no others
C18_DecayClearsOwnCells ==
    [][\A i \in 1 .. Len(timers) :
         Decay(i) =>
           \A c \in DOMAIN gameState.explosions :
              Has(gameState'.explosions, c) <=> c \notin timers[i].cells]_vars

\* C19: the timer of a fire trail removes that trail and no other: a trail
\* stays until its own timer runs, also when the timer of an earlier trail at
\* the same cell runs first
C19_TrailTimerRemovesOwnTrail ==
    [][\A i \in 1 .. Len(timers) :
         TrailDecay(i) =>
           \A c \in DOMAIN gameState.fireTrails :
              Has(gameState'.fireTrails, c) <=>
                 gameState.fireTrails[c].stamp # timers[i].id]_vars

\* the same, trails being told apart by their cell only
C19_TrailTimerClearsOwnCell ==
    [][\A i \in 1 .. Len(timers) :
         TrailDecay(i) =>
           \A c \in DOMAIN gameState.fireTrails :
              Has(gameState'.fireTrails, c) <=> c # timers[i].key]_vars

\* C20: between steps the last published snapshot equals the world
C20_SnapshotIsWorld == snapshot = gameState

\* every step that changes the world publishes it, the timer of a fire trail
\* excepted
C20_SnapshotUnlessTrailTimer ==
    [][(snapshot = gameState /\ \A i \in 1 .. Len(timers) : ~TrailDecay(i)) =>
          snapshot' = gameState']_vars

-----------------------------------------------------------------------------
\* Connections

\* q is p but for timed effects whose time has run out
SameButExpired(p, q) ==
    /\ q.lives = p.lives /\ q.x = p.x /\ q.y = p.y /\ q.alive = p.alive
    /\ DOMAIN q.powerups \subseteq DOMAIN p.powerups
    /\ \A k \in DOMAIN p.powerups :
         IF Has(q.powerups, k) THEN q.powerups[k] = p.powerups[k]
         ELSE p.powerups[k].timed /\ p.powerups[k].left < 0

C21_Rejoined ==
    /\ last.op = "setPlayerId"
    /\ Commander("s1") = "p1"
    /\ gameState.players["p1"].lives = 1
    /\ <<gameState.players["p1"].x, gameState.players["p1"].y>> # <<2, 2>>

\* the four spawn corners, in the order they are tried
Corners == << <<2, 2>>, <<COLS - 3, 2>>, <<2, ROWS - 3>>, <<COLS - 3, ROWS - 3>> >>

\* no wall and no player on cell c
CornerFree(gs, c) ==
    /\ c \notin DOMAIN gs.walls
    /\ \A id \in DOMAIN gs.players : <<gs.players[id].x, gs.players[id].y>> # c

\* where a new player belongs: the first free corner, the centre if none is
ExpectedSpawn(gs) ==
    IF \E i \in 1 .. 4 : CornerFree(gs, Corners[i])
    THEN Corners[CHOOSE i \in 1 .. 4 :
                    /\ CornerFree(gs, Corners[i])
                    /\ \A j \in 1 .. i - 1 : ~CornerFree(gs, Corners[j])]
    ELSE <<COLS \div 2, ROWS \div 2>>

\* C22: an identify with an id that has no record adds exactly that one
\* player, alive with 5 lives, on the first spawn corner that holds no wall
\* and no player, on the grid centre if there is none, coloured by the number
\* of players there were, and publishes a snapshot
C22_NewPlayerAtFirstFreeCorner ==
    [][\A s \in inputs.socks : \A id \in inputs.pids :
         (SetPlayerId(s, id) /\ ~Has(gameState.players, id)) =>
            /\ DOMAIN gameState'.players = DOMAIN gameState.players \cup {id}
            /\ \A o \in DOMAIN gameState.players :
                 SameButExpired(gameState.players[o], gameState'.players[o])
            /\ LET q == gameState'.players[id] IN
                 /\ q.id = id /\ q.alive /\ q.lives = 5
                 /\ <<q.x, q.y>> = ExpectedSpawn(gameState)
                 /\ q.color = Cardinality(DOMAIN gameState.players) % 4
                 /\ q.powerups = EmptyMap
            /\ socketToPlayer'[s] = id
            /\ last'.bc /\ snapshot' = gameState']_vars

\* a fifth player has just joined with all four corners taken: it stands at
\* the grid centre and has the first colour again
C22_FifthPlayerAtCentre ==
    /\ last.op = "setPlayerId"
    /\ Has(gameState.players, "p5")
    /\ LET q == gameState.players["p5"] IN
         q.x = 12 /\ q.y = 9 /\ q.color = 0 /\ q.lives = 5 /\ q.alive

\* a second player has just joined with a wall on (2,2) and a player on
\* (22,2): it stands at (2,16)
C22_SecondPlayerAtThirdCorner ==
    /\ last.op = "setPlayerId"
    /\ Has(gameState.walls, <<2, 2>>)
    /\ Has(gameState.players, "p2")
    /\ gameState.players["p2"].x = 2 /\ gameState.players["p2"].y = 16
    /\ gameState.players["p2"].color = 1

-----------------------------------------------------------------------------
\* Teleport, buildWall, collection

\* C23: a teleport succeeds only for an alive player with a teleport use left
\* and a wrapped target cell that holds no wall and no bomb, ghost_mode or
\* not; it then puts the player on the wrapped target and consumes one use
\* (the effect goes at 0); a teleport that does not succeed changes nothing
\* and publishes nothing
C23_TeleportNeedsFreeCell ==
    [][\A s \in inputs.socks : \A c \in inputs.cells :
         Teleport(s, c[1], c[2]) =>
           IF last'.ok
           THEN LET p == gameState.players[socketToPlayer[s]]
                    q == gameState'.players[socketToPlayer[s]]
                IN /\ KnownAlive(s)
                   /\ Uses(p, "teleport") > 0
                   /\ ~CellHoldsWall(Target(c)) /\ ~CellHoldsBomb(Target(c))
                   /\ <<q.x, q.y>> = Target(c)
                   /\ Uses(q, "teleport") = Uses(p, "teleport") - 1
                   /\ Uses(p, "teleport") = 1 => "teleport" \notin DOMAIN q.powerups
                   /\ last'.bc
           ELSE UNCHANGED <<gameState, snapshot>> /\ ~last'.bc]_vars

\* C23 with the bomb found by the key of the wrapped target, as the handler
\* looks it up, and the converse: such a teleport does succeed
C23_TeleportNeedsFreeKey ==
    [][\A s \in inputs.socks : \A c \in inputs.cells :
         Teleport(s, c[1], c[2]) =>
           LET free == /\ KnownAlive(s)
                       /\ Uses(gameState.players[socketToPlayer[s]], "teleport") > 0
                       /\ ~CellHoldsWall(Target(c)) /\ Target(c) \notin DOMAIN Bombs
           IN IF free
              THEN LET p == gameState.players[socketToPlayer[s]]
                       q == gameState'.players[socketToPlayer[s]]
                   IN /\ last'.ok /\ last'.bc
                      /\ <<q.x, q.y>> = Target(c)
                      /\ Uses(q, "teleport") = Uses(p, "teleport") - 1
                      /\ Uses(p, "teleport") = 1 => "teleport" \notin DOMAIN q.powerups
              ELSE UNCHANGED <<gameState, snapshot>> /\ ~last'.ok /\ ~last'.bc]_vars

\* a teleport onto the fixed wall at (3,3) has just been refused to a player
\* in ghost mode
C23_GhostTeleportRefused ==
    /\ last.op = "teleport" /\ ~last.ok
    /\ LET p == gameState.players["p1"] IN
         /\ p.alive /\ Uses(p, "teleport") > 0 /\ "ghost_mode" \in DOMAIN p.powerups
         /\ <<p.x, p.y>> = <<4, 2>>
    /\ Bombs = EmptyMap

\* a player stands on cell t
CellHoldsPlayer(t) == \E id \in DOMAIN Players : <<Players[id].x, Players[id].y>> = t

\* what a successful buildWall at cell t by the player of s leaves
WallBuilt(s, t) ==
    LET p == gameState.players[socketToPlayer[s]]
        q == gameState'.players[socketToPlayer[s]]
    IN /\ DOMAIN gameState'.walls = DOMAIN gameState.walls \cup {t}
       /\ \A k \in DOMAIN gameState.walls : gameState'.walls[k] = gameState.walls[k]
       /\ gameState'.walls[t] = [x |-> t[1], y |-> t[2], destructible |-> TRUE]
       /\ Uses(q, "wall_builder") = Uses(p, "wall_builder") - 1
       /\ Uses(p, "wall_builder") = 1 => "wall_builder" \notin DOMAIN q.powerups

\* C24: buildWall places a wall only for an alive player with a wall_builder
\* use left and a wrapped target cell free of wall, bomb, power-up and player;
\* it then adds one destructible wall there and consumes one use (the effect
\* goes at 0); otherwise walls and uses stay as they are
C24_BuildWallNeedsFreeCell ==
    [][\A s \in inputs.socks : \A c \in inputs.cells :
         BuildWall(s, c[1], c[2]) =>
           IF last'.ok
           THEN /\ KnownAlive(s)
                /\ Uses(gameState.players[socketToPlayer[s]], "wall_builder") > 0
                /\ ~CellHoldsWall(Target(c)) /\ ~CellHoldsBomb(Target(c))
                /\ Target(c) \notin DOMAIN Powerups /\ ~CellHoldsPlayer(Target(c))
                /\ WallBuilt(s, Target(c))
           ELSE UNCHANGED gameState]_vars

\* C24 with the bomb found by the key of the wrapped target, as the handler
\* looks it up, and the converse: such a buildWall does place the wall
C24_BuildWallNeedsFreeKey ==
    [][\A s \in inputs.socks : \A c \in inputs.cells :
         BuildWall(s, c[1], c[2]) =>
           LET free == /\ KnownAlive(s)
                       /\ Uses(gameState.players[socketToPlayer[s]], "wall_builder") > 0
                       /\ ~CellHoldsWall(Target(c)) /\ Target(c) \notin DOMAIN Bombs
                       /\ Target(c) \notin DOMAIN Powerups
                       /\ ~CellHoldsPlayer(Target(c))
           IN IF free THEN last'.ok /\ last'.bc /\ WallBuilt(s, Target(c))
              ELSE UNCHANGED <<gameState, snapshot>> /\ ~last'.ok]_vars

\* a buildWall onto the power-up at (6,2) has just been refused
C24_BuildOnPowerupRefused ==
    /\ last.op = "buildWall" /\ ~last.ok
    /\ Uses(gameState.players["p1"], "wall_builder") = 1
    /\ Has(gameState.walls, <<2, 2>>)
    /\ Has(gameState.powerups, <<6, 2>>)
    /\ gameState.players["p1"].alive

\* the power-up kind lying on cell t, "" for none
KindAt(t) == IF Has(Powerups, t) THEN Powerups[t].type ELSE ""

\* C25: collecting a wall_builder leaves the collector with exactly
\* WALL_BUILDER_USES (3) uses, whatever it held before
C25_WallBuilderOverrides ==
    [][\A s \in inputs.socks : \A c \in inputs.cells :
         (/\ Move(s, c[1], c[2]) /\ last'.ok
          /\ KindAt(Target(c)) = "wall_builder")
         => Uses(gameState'.players[socketToPlayer[s]], "wall_builder") = 3]_vars

\* a wall_builder was collected by a player that had used one of its uses
C25_CollectedWithUsesLeft ==
    /\ last.op = "move" /\ last.ok
    /\ <<gameState.players["p1"].x, gameState.players["p1"].y>> = <<5, 2>>
    /\ Uses(gameState.players["p1"], "wall_builder") = 3
    /\ Has(gameState.walls, <<3, 2>>)
    /\ gameState.powerups = EmptyMap

\* the effect of a collected power-up of the kind on the collector, p before, q after
Applied(kind, p, q) ==
    IF kind = "extra_life" THEN q.lives = Min(p.lives + 1, MAX_LIVES)
    ELSE IF kind = "magnet"
    THEN Has(q.powerups, "magnet") /\ q.powerups["magnet"].left = Ticks(POWERUPS["magnet"])
    ELSE IF kind = "wall_builder" THEN Uses(q, "wall_builder") = WALL_BUILDER_USES
    ELSE TRUE

\* q has no life and no effect that p had not
NothingGained(p, q) ==
    /\ q.lives <= p.lives
    /\ \A k \in DOMAIN q.powerups : Has(p.powerups, k) /\ q.powerups[k] = p.powerups[k]

\* C26: a successful move onto a cell with a ground power-up removes the
\* power-up in that step and applies its effect to the mover, whatever the kind;
\* a move onto a cell without one gives the mover nothing, so of two moves onto
\* the same power-up only the first processed collects
C26_CollectedPowerupGone ==
    [][\A s \in inputs.socks : \A c \in inputs.cells :
         (Move(s, c[1], c[2]) /\ last'.ok) =>
           LET p == gameState.players[socketToPlayer[s]]
               q == gameState'.players[socketToPlayer[s]]
           IN IF Has(Powerups, Target(c))
              THEN /\ ~Has(gameState'.powerups, Target(c))
                   /\ Applied(KindAt(Target(c)), p, q)
              ELSE NothingGained(p, q)]_vars

\* both players stand on the power-up's cell, p2 having moved last: p1 holds
\* the magnet and p2 does not
C26_SecondMoverGetsNothing ==
    /\ DOMAIN Players = {"p1", "p2"}
    /\ last.op = "move" /\ last.ok /\ socketToPlayer = One("s1", "p2")
    /\ \A id \in {"p1", "p2"} : <<Players[id].x, Players[id].y>> = <<5, 2>>
    /\ Has(Players["p1"].powerups, "magnet") /\ ~Has(Players["p2"].powerups, "magnet")
    /\ gameState.powerups = EmptyMap

\* the other processing order: p2 collected the wall_builder, p1 came second
C26_OtherOrder ==
    /\ DOMAIN Players = {"p1", "p2"}
    /\ last.op = "move" /\ last.ok /\ socketToPlayer = One("s1", "p1")
    /\ \A id \in {"p1", "p2"} : <<Players[id].x, Players[id].y>> = <<5, 2>>
    /\ Uses(Players["p2"], "wall_builder") = WALL_BUILDER_USES
    /\ ~Has(Players["p1"].powerups, "wall_builder")
    /\ gameState.powerups = EmptyMap

-----------------------------------------------------------------------------
(* Fire trails under a step, block spawn, expiry                           *)

\* the accepted move of this step ends on the fire trail of somebody else
OntoForeignTrail(s, c) ==
    /\ Has(gameState'.fireTrails, Target(c))
    /\ gameState'.fireTrails[Target(c)].playerId # socketToPlayer[s]

\* the players with fewer lives after the step
LostALife == {id \in DOMAIN Players : gameState'.players[id].lives < Players[id].lives}

\* C27: a successful move onto a fire trail of a different player damages the
\* mover and nobody else; a move onto the mover's own trail damages nobody
C27_TrailBurnsMoverOnly ==
    [][\A s \in inputs.socks : \A c \in inputs.cells :
         (Move(s, c[1], c[2]) /\ last'.ok) =>
            IF OntoForeignTrail(s, c) THEN LostALife \subseteq {socketToPlayer[s]}
            ELSE LostALife = {}]_vars

\* C27 as the handler does it: the damage of the step goes to the players on
\* the cell of the trail, the mover among them; off a foreign trail nobody is
\* damaged
C27_TrailBurnsItsCell ==
    [][\A s \in inputs.socks : \A c \in inputs.cells :
         (Move(s, c[1], c[2]) /\ last'.ok) =>
            IF OntoForeignTrail(s, c)
            THEN LostALife = {id \in DOMAIN Players :
                                /\ Players[id].alive
                                /\ ~Has(Players[id].powerups, "force_field")
                                /\ \/ id = socketToPlayer[s]
                                   \/ <<Players[id].x, Players[id].y>> = Target(c)}
            ELSE LostALife = {}]_vars

\* p1 has stepped onto p0's trail where p0 stood: both have lost a life
C27_OwnerBurntToo ==
    /\ last.op = "move" /\ last.ok /\ socketToPlayer = One("s1", "p1")
    /\ Players["p0"].lives = 1 /\ Players["p1"].lives = 1
    /\ Has(gameState.fireTrails, <<2, 3>>)
    /\ gameState.fireTrails[<<2, 3>>].playerId = "p0"

\* the cells that got a wall in this step
NewWalls == DOMAIN gameState'.walls \ DOMAIN gameState.walls

\* one of the four spawn-corner safe zones
SafeZone(c) == (c[1] <= 2 \/ c[1] >= COLS - 3) /\ (c[2] <= 2 \/ c[2] >= ROWS - 3)

\* what a firing of the block spawn may do, apart from the bomb test
BlockAdded ==
    /\ Cardinality(NewWalls) <= 1
    /\ DOMAIN gameState.walls \subseteq DOMAIN gameState'.walls
    /\ \A k \in DOMAIN gameState.walls : gameState'.walls[k] = gameState.walls[k]
    /\ DestructibleCount(gameState) >= 150 => NewWalls = {}
    /\ \A c \in NewWalls :
         /\ gameState'.walls[c] = [x |-> c[1], y |-> c[2], destructible |-> TRUE]
         /\ ~Has(Powerups, c) /\ ~CellHoldsPlayer(c) /\ ~SafeZone(c)

\* C28: a firing of the block spawn adds at most one destructible wall, none
\* when 150 destructible walls exist, and only on a cell that held no wall, no
\* power-up, no bomb and no player and lies outside the safe zones
C28_BlockOnFreeCell ==
    [][BlockSpawn => (BlockAdded /\ \A c \in NewWalls : ~CellHoldsBomb(c))]_vars

\* C28 with the bomb test of spawnRandomBlock, on the coordinates stored in
\* the bomb
C28_BlockOffStoredBombs ==
    [][BlockSpawn =>
         /\ BlockAdded
         /\ \A c \in NewWalls :
               ~\E k \in DOMAIN Bombs : <<Bombs[k].x, Bombs[k].y>> = c]_vars

\* a firing at the cap has added nothing
C28_CapHolds ==
    /\ last.op = "block" /\ ~last.ok
    /\ DestructibleCount(gameState) = 150
    /\ Has(gameState.walls, <<6, 2>>) /\ ~Has(gameState.walls, <<8, 2>>)

\* C29: a firing of the block spawn adds a wall only while some client is
\* connected, that is, mapped to a player
C29_BlocksOnlyWhileConnected ==
    [][(BlockSpawn /\ NewWalls # {}) => socketToPlayer # EmptyMap]_vars

\* C29 with the guard of scheduleNextBlockSpawn: a wall is added only while
\* some player record exists
C29_BlocksOnlyWithPlayers ==
    [][(BlockSpawn /\ NewWalls # {}) => DOMAIN Players # {}]_vars

\* a firing before any player has joined has added nothing
C29_NoPlayersNoBlock ==
    /\ last.op = "block" /\ ~last.ok
    /\ DOMAIN Players = {} /\ sockets # {}

\* a block has been added with no client connected
C29_BlockAfterAllLeft ==
    /\ last.op = "block" /\ last.ok
    /\ sockets = {} /\ socketToPlayer = EmptyMap

TimedKinds == {k \in DOMAIN POWERUPS : POWERUPS[k] > 0}

\* the timed effects a player holds past their time
Overdue(p) == {k \in DOMAIN p.powerups \cap TimedKinds : p.powerups[k].left < 0}

\* C30: expiry is evaluated at every broadcast and only there: right after a
\* broadcast no player holds a timed effect past its time; a step without
\* broadcast takes no timed effect away; a counted effect goes only by the use
\* of its last use, never by the pass
C30_ExpiryAtBroadcastOnly ==
    [][\A id \in DOMAIN Players :
         LET p == Players[id]
             q == gameState'.players[id]
         IN /\ last'.bc => Overdue(q) = {}
            /\ \A k \in DOMAIN p.powerups \cap TimedKinds :
                  ~Has(q.powerups, k) => (last'.bc /\ k \in Overdue(p))
            /\ \A k \in DOMAIN p.powerups \ TimedKinds :
                  ~Has(q.powerups, k) =>
                     /\ p.powerups[k].uses = 1 /\ last'.ok
                     /\ last'.op \in {"placeBomb", "teleport", "buildWall"}]_vars

\* a broadcast has just evicted p1's timed effect and left its teleport use
C30_EvictedAtBroadcast ==
    /\ last.bc
    /\ DOMAIN Players["p1"].powerups = {"teleport"}
    /\ Players["p1"].powerups["teleport"].uses = 1

\* p1 holds a timed effect past its time: no broadcast since it ran out
C30_OverdueUntilBroadcast ==
    /\ ~last.bc
    /\ Overdue(Players["p1"]) # {}

-----------------------------------------------------------------------------
(* Magnet, swap                                                            *)

\* min(|d|, size - |d|)
AxisDistance(a, b, size) ==
    LET d == IF a >= b THEN a - b ELSE b - a IN IF d <= size - d THEN d ELSE size - d

\* the neighbour of a on a ring of the given size that is nearer to t
Nearer(a, t, size) ==
    IF a = t THEN a
    ELSE CHOOSE b \in {(a + 1) % size, (a + size - 1) % size} :
            AxisDistance(b, t, size) < AxisDistance(a, t, size)

\* cell k lies within the magnet's radius of cell t
InRadius(k, t) == AxisDistance(k[1], t[1], COLS) <= 3 /\ AxisDistance(k[2], t[2], ROWS) <= 3

NextCell(k, t) == <<Nearer(k[1], t[1], COLS), Nearer(k[2], t[2], ROWS)>>

\* Q is what a pull towards t may make of the ground power-ups P, walls W:
\* f takes every power-up to the cell it has in Q
PullOK(P, W, t, Q) ==
    \E f \in [DOMAIN P -> DOMAIN Q] :
       /\ \A j, k \in DOMAIN P : f[j] = f[k] => j = k
       /\ \A c \in DOMAIN Q : \E k \in DOMAIN P : f[k] = c
       /\ \A k \in DOMAIN P :
            /\ Q[f[k]] = [x |-> f[k][1], y |-> f[k][2], type |-> P[k].type]
            /\ f[k] \in {k, NextCell(k, t)}
            /\ f[k] # k => /\ InRadius(k, t) /\ ~Has(W, f[k])
                           /\ Has(P, f[k]) => f[f[k]] # f[k]
            /\ (f[k] = k /\ InRadius(k, t) /\ NextCell(k, t) # k) =>
                  \/ Has(W, NextCell(k, t))
                  \/ Has(P, NextCell(k, t))
                  \/ Has(Q, NextCell(k, t))

\* the ground power-ups once the collection at cell t is done
AfterCollection(Q, t) == [k \in DOMAIN Q \ {t} |-> Q[k]]

\* C31: on a successful move of a player with an active magnet every ground
\* power-up within distance 3 on both axes of the new cell goes one step
\* towards it on each axis where it differs, unless its next cell holds a wall
\* or another power-up; no power-up is created, destroyed or merged by the
\* pull, and none outside the radius moves
C31_MagnetPullsOneStep ==
    [][\A s \in inputs.socks : \A c \in inputs.cells :
         (/\ Move(s, c[1], c[2]) /\ last'.ok
          /\ Has(gameState.players[socketToPlayer[s]].powerups, "magnet"))
         => /\ \A ord \in Perms({k \in DOMAIN Powerups : InRadius(k, Target(c))}) :
                 PullOK(Powerups, gameState.walls, Target(c),
                        magnetPull(gameState, Target(c)[1], Target(c)[2], ord, 1).powerups)
            /\ \E Q \in {AfterCollection(gameState'.powerups, Target(c))} \cup
                        {[k \in DOMAIN gameState'.powerups \cup {Target(c)} |->
                            IF k = Target(c)
                            THEN [x |-> k[1], y |-> k[2], type |-> kind]
                            ELSE gameState'.powerups[k]] : kind \in DOMAIN POWERUPS} :
                 /\ PullOK(Powerups, gameState.walls, Target(c), Q)
                 /\ gameState'.powerups = AfterCollection(Q, Target(c))]_vars

\* the first pull: the power-up across the edge has come to (COLS-1,2), one of
\* the two aiming at (1,2) got there and the other stayed, the one behind the
\* wall and the one out of reach are where they were
C31_PulledAcrossTheEdge ==
    /\ last.op = "move" /\ last.ok
    /\ DOMAIN gameState.powerups = {<<COLS - 1, 2>>, <<1, 2>>, <<2, 1>>, <<2, 4>>, <<4, 2>>}
    /\ gameState.powerups[<<COLS - 1, 2>>].type = "extra_life"

\* a pulled power-up reached the player's cell and was collected in the step
C31_PulledAndCollected ==
    /\ last.op = "move" /\ last.ok
    /\ Players["p1"].lives = 2
    /\ ~\E k \in DOMAIN gameState.powerups : gameState.powerups[k].type = "extra_life"

Position(p) == <<p.x, p.y>>

\* C32: collecting a swap exchanges the collector's position with that of
\* exactly one other alive player and moves no third player; with no other
\* alive player no position changes; an eliminated player is never the partner
C32_SwapExchangesTwo ==
    [][\A s \in inputs.socks : \A c \in inputs.cells :
         (/\ Move(s, c[1], c[2]) /\ last'.ok
          /\ KindAt(Target(c)) = "swap"
          /\ ~Has(gameState.players[socketToPlayer[s]].powerups, "magnet")
          /\ ~OntoForeignTrail(s, c))
         => LET id == socketToPlayer[s]
                others == {j \in DOMAIN Players \ {id} : Players[j].alive}
                after(j) == Position(gameState'.players[j])
            IN IF others = {}
               THEN /\ after(id) = Target(c)
                    /\ \A k \in DOMAIN Players \ {id} : after(k) = Position(Players[k])
               ELSE \E j \in others :
                      /\ after(id) = Position(Players[j])
                      /\ after(j) = Target(c)
                      /\ \A k \in DOMAIN Players \ {id, j} :
                            after(k) = Position(Players[k])]_vars

\* p1 has collected the swap and changed places with p2; p3 and the
\* eliminated p4 are where they were
C32_SwappedWithOne ==
    /\ last.op = "move" /\ last.ok /\ DOMAIN Players = {"p1", "p2", "p3", "p4"}
    /\ gameState.powerups = EmptyMap
    /\ Position(Players["p1"]) = <<6, 2>> /\ Position(Players["p2"]) = <<5, 2>>
    /\ Position(Players["p3"]) = <<8, 2>> /\ Position(Players["p4"]) = <<10, 2>>

\* p1 has collected the swap with nobody else alive: it stands on the cell
C32_NobodyToSwap ==
    /\ last.op = "move" /\ last.ok /\ DOMAIN Players = {"p1", "p4"}
    /\ gameState.powerups = EmptyMap
    /\ Position(Players["p1"]) = <<5, 2>> /\ Position(Players["p4"]) = <<10, 2>>

-----------------------------------------------------------------------------
(* Removal of bombs, markers and trails                                    *)

\* a marker of the detonation of bomb id is in the world
MarkerInWorld(id) ==
    \E k \in DOMAIN gameState.explosions : gameState.explosions[k].by = id

\* the fire trail with the stamp is in the world
TrailInWorld(stamp) ==
    \E k \in DOMAIN gameState.fireTrails : gameState.fireTrails[k].stamp = stamp

NothingTemporary ==
    /\ gameState.bombs = EmptyMap
    /\ gameState.explosions = EmptyMap
    /\ gameState.fireTrails = EmptyMap

\* C33: with time passing and due timers firing, every bomb, every explosion
\* marker and every fire trail is eventually removed, and once commands have
\* ceased the world holds none of them for good
C33_EverythingRemoved ==
    /\ \A id \in 1 .. MaxBombs : BombInWorld(id) ~> ~BombInWorld(id)
    /\ \A id \in 1 .. MaxBombs : MarkerInWorld(id) ~> ~MarkerInWorld(id)
    /\ \A stamp \in 1 .. MaxTrails : TrailInWorld(stamp) ~> ~TrailInWorld(stamp)
    /\ <>[]NothingTemporary

\* the last timer has fired on a world that had a bomb and a trail: nothing
\* temporary is left and nothing is pending
C33_AllGone ==
    /\ NothingTemporary /\ timers = <<>>
    /\ nextBombId > 1 /\ nextTrailId > 1
    /\ last.op \in {"trail", "decay"}

-----------------------------------------------------------------------------
(* Effects past their time, cells with two things, the wall cap            *)

\* C34: a timed effect past its time has no influence, broadcast or not: a
\* force field does not protect in a detonation, a ghost mode does not let a
\* move onto a wall, a fire trail effect deposits no trail and a magnet pulls
\* no power-up
C34_ExpiredHasNoInfluence ==
    [][/\ \A i \in 1 .. Len(timers) :
            Detonates(i) =>
              \A id \in DOMAIN Players :
                 (/\ Players[id].alive
                  /\ Position(Players[id]) \in BlastOfStep
                  /\ "force_field" \in Overdue(Players[id]))
                 => gameState'.players[id].lives = Players[id].lives - 1
       /\ \A s \in inputs.socks : \A c \in inputs.cells :
            (Move(s, c[1], c[2]) /\ last'.ok) =>
               LET p == Players[socketToPlayer[s]] IN
               /\ "ghost_mode" \in Overdue(p) => ~CellHoldsWall(Target(c))
               /\ "fire_trail" \in Overdue(p) =>
                     gameState'.fireTrails = gameState.fireTrails
               /\ "magnet" \in Overdue(p) =>
                     \A k \in DOMAIN Powerups \ {Target(c)} :
                        Has(gameState'.powerups, k)]_vars

\* a detonation has just covered p1, whose force field had run out and is
\* evicted by the broadcast that ends the step: p1 is unharmed
C34_ShieldedPastExpiry ==
    /\ last.op = "fuse" /\ last.ok
    /\ Has(gameState.explosions, <<4, 2>>)
    /\ Players["p1"].alive /\ Position(Players["p1"]) = <<4, 2>>
    /\ ~Has(Players["p1"].powerups, "force_field")

\* C35: no cell holds both a wall and a ground power-up
C35_NoPowerupOnWall == DOMAIN gameState.walls \cap DOMAIN gameState.powerups = {}

\* lives, alive flag and position of every player but the given one are kept,
\* and the given one keeps its lives and alive flag and stands on the cell
Unharmed(id, cell) ==
    /\ DOMAIN gameState'.players = DOMAIN Players
    /\ \A q \in DOMAIN Players :
          /\ gameState'.players[q].lives = Players[q].lives
          /\ gameState'.players[q].alive = Players[q].alive
          /\ q # id => Position(gameState'.players[q]) = Position(Players[q])
    /\ Position(gameState'.players[id]) = cell

\* C37: a successful move or teleport that ends on a cell holding an explosion
\* marker changes no player's lives or alive flag and respawns nobody: the
\* mover stands on the marker's cell and every other player stays where it
\* was (moves that collect a power-up there, pull one with a magnet or step
\* onto another player's fire trail are the business of other rules)
C37_MarkerHarmsNobody ==
    [][\A s \in inputs.socks : \A c \in inputs.cells :
         /\ (/\ Move(s, c[1], c[2]) /\ last'.ok
             /\ Has(gameState.explosions, Target(c))
             /\ ~Has(gameState.powerups, Target(c))
             /\ ~Active(Players[socketToPlayer[s]], "magnet")
             /\ ~OntoForeignTrail(s, c))
            => Unharmed(socketToPlayer[s], Target(c))
         /\ (/\ Teleport(s, c[1], c[2]) /\ last'.ok
             /\ Has(gameState.explosions, Target(c)))
            => Unharmed(socketToPlayer[s], Target(c))]_vars

\* p1 has just moved onto a cell that holds an explosion marker and is
\* alive there with the life it had
C37_MovedOntoMarker ==
    /\ last.op = "move" /\ last.ok
    /\ Has(gameState.explosions, Key(wrapCoordinate(last.x, COLS), wrapCoordinate(last.y, ROWS)))
    /\ Position(Players["p1"]) = Key(wrapCoordinate(last.x, COLS), wrapCoordinate(last.y, ROWS))
    /\ Players["p1"].alive /\ Players["p1"].lives = 1

\* p1 has just teleported onto a cell that holds an explosion marker and is
\* alive there with the life it had
C37_TeleportedOntoMarker ==
    /\ last.op = "teleport" /\ last.ok
    /\ Has(gameState.explosions, Key(wrapCoordinate(last.x, COLS), wrapCoordinate(last.y, ROWS)))
    /\ Position(Players["p1"]) = Key(wrapCoordinate(last.x, COLS), wrapCoordinate(last.y, ROWS))
    /\ Players["p1"].alive /\ Players["p1"].lives = 1


\* the torus cells of the bombs
BombCells == {CellOf(Bombs[k]) : k \in DOMAIN Bombs}

\* C36: no cell holds both a bomb and a wall
C36_NoBombOnWall == BombCells \cap DOMAIN gameState.walls = {}

\* C36 from the side of the walls, which do look: no step puts a wall under
\* the key of a bomb
C36_NoWallOntoBombKey ==
    [][\A c \in NewWalls : c \notin DOMAIN Bombs]_vars

\* C38: the number of destructible walls never exceeds the cap of 150
C38_WallsWithinCap == DestructibleCount(gameState) <= 150

\* the power-up left by the destroyed wall lies at (4,2) behind a wall built at
\* (3,2): the pull of p1's move to (2,2) has left it there
C35_PullRefusedAtWall ==
    /\ last.op = "move" /\ last.ok /\ Position(Players["p1"]) = <<2, 2>>
    /\ Has(Players["p1"].powerups, "magnet")
    /\ Has(gameState.powerups, <<4, 2>>) /\ Has(gameState.walls, <<3, 2>>)

\* a buildWall onto the power-up left by the destroyed wall has been refused:
\* the other cells it could name are free and p1, respawned, is far from them
C35_BuildRefusedAtPowerup ==
    /\ last.op = "buildWall" /\ ~last.ok
    /\ Has(gameState.powerups, <<4, 2>>) /\ gameState.bombs = EmptyMap
    /\ ~Has(gameState.walls, <<2, 2>>) /\ ~Has(gameState.walls, <<3, 2>>)
    /\ Position(Players["p1"]) = <<COLS - 3, 2>>
    /\ Uses(Players["p1"], "wall_builder") > 0 /\ Players["p1"].alive

\* C38 for the block spawn alone, which does count: it adds no wall at the cap
C38_SpawnKeepsCap ==
    [][(BlockSpawn /\ NewWalls # {}) => DestructibleCount(gameState') <= 150]_vars

\* a buildWall has taken the world past the cap
C38_BuiltPastCap ==
    /\ last.op = "buildWall" /\ last.ok
    /\ DestructibleCount(gameState) = 151
====
